---- MODULE Spec2Model ----
(***************************************************************************)
(* Knowledge-graph store (src/knowledge_graph/graph.py) and entity         *)
(* resolver (src/knowledge_graph/entity_resolver.py) of                    *)
(* recruiter-intelligence, as a state machine over the five SQLite tables. *)
(*                                                                         *)
(* Text values are sequences of one-character strings, so that lower(),    *)
(* strip(), suffix removal and SequenceMatcher work on the characters.     *)
(* SQL NULL / Python None is 0 in integer columns (ids and days start at   *)
(* 1) and the empty sequence in JSON columns.                              *)
(***************************************************************************)
EXTENDS Integers, Sequences, FiniteSets, TLC

VARIABLES
    entities,        \* rows of kg_entities
    aliases,         \* rows of kg_aliases
    relationships,   \* rows of kg_relationships
    enrichment,      \* rows of kg_enrichment
    tags,            \* rows of kg_tags
    seq_entities,    \* sqlite_sequence of kg_entities (AUTOINCREMENT)
    seq_relationships, \* sqlite_sequence of kg_relationships
    today,           \* CURRENT_DATE
    pc,              \* per worker: position inside its current call
    call,            \* per worker: the arguments of its current call
    loc,             \* per worker: the locals of its current call
    alias_cache      \* EntityResolver._alias_cache: normalized name -> entity id

vars == <<entities, aliases, relationships, enrichment, tags, seq_entities,
          seq_relationships, today, pc, call, loc, alias_cache>>

-----------------------------------------------------------------------------
(* Bounds of the model *)

MaxEntityId == 2
MaxRelationshipId == 2
MaxMentions == 4

-----------------------------------------------------------------------------
(* Text *)

NULL == 0
NULL_JSON == <<>>

UpperCase == <<"A","B","C","D","E","F","G","H","I","J","K","L","M",
               "N","O","P","Q","R","S","T","U","V","W","X","Y","Z">>
LowerCase == <<"a","b","c","d","e","f","g","h","i","j","k","l","m",
               "n","o","p","q","r","s","t","u","v","w","x","y","z">>
Digits == {"0","1","2","3","4","5","6","7","8","9"}
Whitespace == {" ", "\t", "\n"}

\* the lower-case letter of each upper-case letter
ToLower == [c \in {UpperCase[i] : i \in 1..26} |->
               LowerCase[CHOOSE i \in 1..26 : UpperCase[i] = c]]

LowerChar(c) == IF c \in DOMAIN ToLower THEN ToLower[c] ELSE c

\* str.lower()
Lower(s) == [i \in 1..Len(s) |-> LowerChar(s[i])]

RECURSIVE LStrip(_)
LStrip(s) == IF s # <<>> /\ Head(s) \in Whitespace THEN LStrip(Tail(s)) ELSE s

RECURSIVE RStrip(_)
RStrip(s) ==
    IF s # <<>> /\ s[Len(s)] \in Whitespace
    THEN RStrip(SubSeq(s, 1, Len(s) - 1))
    ELSE s

\* str.strip()
Strip(s) == RStrip(LStrip(s))

\* str.endswith(suffix)
EndsWith(s, suffix) ==
    /\ Len(suffix) <= Len(s)
    /\ SubSeq(s, Len(s) - Len(suffix) + 1, Len(s)) = suffix

\* json.dumps(x) if x else None: None and the empty dict are stored as NULL
EMPTY_DICT == <<"dict">>
JsonOrNull(x) == IF x = NULL_JSON \/ x = EMPTY_DICT THEN NULL_JSON ELSE <<"json">> \o x

\* COALESCE(a, b)
Coalesce(a, b) == IF a # NULL_JSON THEN a ELSE b

-----------------------------------------------------------------------------
(* The store *)

Store ==
    [entities |-> entities, aliases |-> aliases, relationships |-> relationships,
     enrichment |-> enrichment, tags |-> tags, seq_entities |-> seq_entities,
     seq_relationships |-> seq_relationships]

\* mutant of NormalizedKey: the strip() is forgotten
NormalizedKey_NoStrip(name) == Lower(name)

\* the normalized_name column: name.lower().strip()
NormalizedKey(name) == Strip(Lower(name))

\* SELECT id, mention_count FROM kg_entities WHERE normalized_name = ? AND entity_type = ?
SelectEntity(db, normalized, entity_type) ==
    {e \in db.entities : e.normalized_name = normalized /\ e.entity_type = entity_type}

\* UNIQUE(normalized_name, entity_type) seen by a row about to be written
EntityKeyTaken(rows, normalized, entity_type, self_id) ==
    \E e \in rows : /\ e.id # self_id
                    /\ e.normalized_name = normalized
                    /\ e.entity_type = entity_type

\* the UPDATE branch of add_entity
UpdateMention(db, id, attributes, day) ==
    [db EXCEPT !.entities =
        {IF e.id = id
         THEN [e EXCEPT !.mention_count = @ + 1,
                        !.last_seen = day,
                        !.attributes_json = Coalesce(JsonOrNull(attributes), @)]
         ELSE e : e \in db.entities}]

\* the INSERT branch of add_entity; raises IntegrityError on UNIQUE
InsertEntity(db, name, normalized, entity_type, attributes, day) ==
    IF EntityKeyTaken(db.entities, normalized, entity_type, NULL)
    THEN [db |-> db, ret |-> NULL, raised |-> TRUE]
    ELSE [db |-> [db EXCEPT
                    !.entities = @ \cup
                        {[id |-> db.seq_entities + 1,
                          name |-> name,
                          normalized_name |-> normalized,
                          entity_type |-> entity_type,
                          attributes_json |-> JsonOrNull(attributes),
                          mention_count |-> 1,
                          first_seen |-> day,
                          last_seen |-> day]},
                    !.seq_entities = @ + 1],
          ret |-> db.seq_entities + 1,
          raised |-> FALSE]

\* KnowledgeGraph.add_entity, run without interleaving
add_entity(db, name, entity_type, attributes, day) ==
    LET normalized == NormalizedKey(name)
        existing == SelectEntity(db, normalized, entity_type)
    IN  IF existing # {}
        THEN LET id == (CHOOSE e \in existing : TRUE).id
             IN  [db |-> UpdateMention(db, id, attributes, day),
                  ret |-> id, raised |-> FALSE]
        ELSE InsertEntity(db, name, normalized, entity_type, attributes, day)

-----------------------------------------------------------------------------
(* Relationships *)

\* event_date.isoformat() if event_date else None. A date is its day number
\* (from 1) and the day number also stands for its ISO text: the text is
\* one-to-one and ordered as the dates are; None is NULL.
IsoFormat(event_date) == event_date

\* mutant of SameRelationshipKey: the UNIQUE constraint is left out of the schema
SameRelationshipKey_NoConstraint(r1, r2) == FALSE

\* UNIQUE(subject_id, predicate, object_id, event_date): SQLite treats NULLs
\* as distinct, so a row with event_date NULL never collides
SameRelationshipKey(r1, r2) ==
    /\ r1.subject_id = r2.subject_id
    /\ r1.predicate = r2.predicate
    /\ r1.object_id = r2.object_id
    /\ r1.event_date = r2.event_date
    /\ r1.event_date # NULL

RelationshipUniqueViolated(rows) ==
    \E r1 \in rows, r2 \in rows : r1.id # r2.id /\ SameRelationshipKey(r1, r2)

\* the INSERT of add_relationship with its except sqlite3.IntegrityError
InsertRelationship(db, subject_id, predicate, object_id, event_date, payload) ==
    LET row == [id |-> db.seq_relationships + 1,
                subject_id |-> subject_id,
                predicate |-> predicate,
                object_id |-> object_id,
                event_date |-> IsoFormat(event_date),
                confidence |-> payload.confidence,
                context |-> payload.context,
                source_url |-> payload.source_url,
                metadata_json |-> JsonOrNull(payload.metadata)]
    IN  IF RelationshipUniqueViolated(db.relationships \cup {row})
        THEN [db |-> db, ret |-> NULL, raised |-> FALSE]
        ELSE [db |-> [db EXCEPT !.relationships = @ \cup {row},
                                !.seq_relationships = @ + 1],
              ret |-> row.id, raised |-> FALSE]

\* KnowledgeGraph.add_relationship, run without interleaving: three
\* connections, each committed on its own
add_relationship(db, subject_name, subject_type, predicate, object_name, object_type, event_date, payload, day) ==
    LET s == add_entity(db, subject_name, subject_type, NULL_JSON, day)
        o == add_entity(s.db, object_name, object_type, NULL_JSON, day)
    IN  InsertRelationship(o.db, s.ret, predicate, o.ret, event_date, payload)

-----------------------------------------------------------------------------
(* KnowledgeGraph.query *)

\* text LIKE pattern of SQLite: % matches any run of characters, _ any one
\* character, every other character itself without regard to ASCII case
RECURSIVE Like(_, _)
Like(text, pattern) ==
    IF pattern = <<>> THEN text = <<>>
    ELSE IF Head(pattern) = "%"
         THEN \/ Like(text, Tail(pattern))
              \/ text # <<>> /\ Like(Tail(text), pattern)
    ELSE /\ text # <<>>
         /\ Head(pattern) = "_" \/ LowerChar(Head(pattern)) = LowerChar(Head(text))
         /\ Like(Tail(text), Tail(pattern))

\* f"%{s.lower()}%"
ContainsPattern(s) == <<"%">> \o Lower(s) \o <<"%">>

\* the rows of the JOIN that pass the WHERE clause; an argument that is None
\* or empty (NULL for since_date) adds no condition
QueryRows(db, subject, predicate, obj, since_date) ==
    {r \in db.relationships :
        \E s \in db.entities, o \in db.entities :
            /\ r.subject_id = s.id
            /\ r.object_id = o.id
            /\ subject # <<>> => Like(s.normalized_name, ContainsPattern(subject))
            /\ predicate # "" => r.predicate = predicate
            /\ obj # <<>> => Like(o.normalized_name, ContainsPattern(obj))
            /\ since_date # NULL =>
                  (r.event_date = NULL \/ r.event_date >= IsoFormat(since_date))}

\* ORDER BY r.event_date DESC, r.id DESC: NULL is the smallest value of
\* SQLite's order, so the rows without event_date come last
RECURSIVE OrderByDateDesc(_)
OrderByDateDesc(rows) ==
    IF rows = {} THEN <<>>
    ELSE LET first == CHOOSE r \in rows : \A x \in rows :
                          \/ r.event_date > x.event_date
                          \/ r.event_date = x.event_date /\ r.id >= x.id
         IN  <<first>> \o OrderByDateDesc(rows \ {first})

\* LIMIT n: the first n rows, all rows when n is negative
Limit(rows, n) ==
    IF n < 0 \/ n >= Len(rows) THEN rows ELSE SubSeq(rows, 1, n)

\* KnowledgeGraph.query: the relationship rows in the order returned
query(db, subject, predicate, obj, since_date, limit) ==
    Limit(OrderByDateDesc(QueryRows(db, subject, predicate, obj, since_date)), limit)

-----------------------------------------------------------------------------
(* Enrichment and tags *)

\* KnowledgeGraph.add_enrichment: INSERT ... ON CONFLICT(entity_id, source) DO UPDATE
add_enrichment(db, entity_id, source, data) ==
    [db |-> [db EXCEPT !.enrichment =
                {n \in @ : ~(n.entity_id = entity_id /\ n.source = source)}
                \cup {[entity_id |-> entity_id, source |-> source,
                       data_json |-> <<"json">> \o data]}],
     ret |-> 1, raised |-> FALSE]

\* KnowledgeGraph.add_tag: INSERT OR IGNORE, the tag lowercased and trimmed
add_tag(db, entity_id, tag) ==
    [db |-> [db EXCEPT !.tags =
                @ \cup {[entity_id |-> entity_id, tag |-> Strip(Lower(tag))]}],
     ret |-> 1, raised |-> FALSE]

-----------------------------------------------------------------------------
(* EntityResolver.merge_entities *)

EntityById(db, id) == {e \in db.entities : e.id = id}

\* KnowledgeGraph.get_entity_by_id: the row, or NULL for None
get_entity_by_id(db, entity_id) ==
    IF EntityById(db, entity_id) = {} THEN NULL
    ELSE (CHOOSE e \in EntityById(db, entity_id) : TRUE).id

\* UPDATE kg_relationships SET subject_id = keep WHERE subject_id = merge
RepointSubject(rows, keep_id, merge_id) ==
    {IF r.subject_id = merge_id THEN [r EXCEPT !.subject_id = keep_id] ELSE r
        : r \in rows}

\* mutant of RepointObject: the second UPDATE is forgotten
RepointObject_Forgotten(rows, keep_id, merge_id) == rows

\* UPDATE kg_relationships SET object_id = keep WHERE object_id = merge
RepointObject(rows, keep_id, merge_id) ==
    {IF r.object_id = merge_id THEN [r EXCEPT !.object_id = keep_id] ELSE r
        : r \in rows}

\* UPDATE kg_entities SET mention_count = ? WHERE id = keep
SetMentionCount(rows, id, new_count) ==
    {IF e.id = id THEN [e EXCEPT !.mention_count = new_count] ELSE e : e \in rows}

\* UPDATE kg_entities SET entity_type = ? WHERE id = ?
SetEntityType(rows, id, entity_type) ==
    {IF e.id = id THEN [e EXCEPT !.entity_type = entity_type] ELSE e : e \in rows}

\* UPDATE OR IGNORE kg_enrichment SET entity_id = keep WHERE entity_id = merge:
\* a row whose (keep, source) exists already is left where it is
MoveEnrichment(rows, keep_id, merge_id) ==
    {IF n.entity_id = merge_id
        /\ ~\E k \in rows : k.entity_id = keep_id /\ k.source = n.source
     THEN [n EXCEPT !.entity_id = keep_id] ELSE n : n \in rows}

\* UPDATE OR IGNORE kg_tags SET entity_id = keep WHERE entity_id = merge
MoveTags(rows, keep_id, merge_id) ==
    {IF t.entity_id = merge_id
        /\ ~\E k \in rows : k.entity_id = keep_id /\ k.tag = t.tag
     THEN [t EXCEPT !.entity_id = keep_id] ELSE t : t \in rows}

\* INSERT OR IGNORE INTO kg_aliases, UNIQUE(normalized_alias, entity_id)
InsertAlias(rows, entity_id, alias, normalized_alias) ==
    IF \E a \in rows : a.entity_id = entity_id /\ a.normalized_alias = normalized_alias
    THEN rows
    ELSE rows \cup {[entity_id |-> entity_id, alias |-> alias,
                     normalized_alias |-> normalized_alias]}

\* DELETE FROM kg_entities WHERE id = ?
DeleteEntity(rows, id) == {e \in rows : e.id # id}

\* What the connection commits when merge_entities leaves its with-block.
\* The except clause returns False from inside the block, so the context
\* manager commits whatever the statements before the failing one changed.
CommitOnFailure(before, partial) == partial

merge_entities(db, keep_id, merge_id) ==
    IF EntityById(db, keep_id) = {} \/ EntityById(db, merge_id) = {}
    THEN [db |-> db, ret |-> 0, raised |-> FALSE]
    ELSE
    LET keep == CHOOSE e \in EntityById(db, keep_id) : TRUE
        merge == CHOOSE e \in EntityById(db, merge_id) : TRUE
        rels1 == RepointSubject(db.relationships, keep_id, merge_id)
        rels2 == RepointObject(rels1, keep_id, merge_id)
        new_count == keep.mention_count + merge.mention_count
        ents1 == SetMentionCount(db.entities, keep_id, new_count)
        adopt == keep.entity_type = "unknown" /\ merge.entity_type # "unknown"
        ents2 == IF adopt THEN SetEntityType(ents1, keep_id, merge.entity_type)
                 ELSE ents1
        failed(partial) == [db |-> CommitOnFailure(db, partial), ret |-> 0,
                            raised |-> FALSE]
    IN  IF RelationshipUniqueViolated(rels1)
        THEN failed(db)
        ELSE IF RelationshipUniqueViolated(rels2)
        THEN failed([db EXCEPT !.relationships = rels1])
        ELSE IF adopt /\ EntityKeyTaken(ents1, keep.normalized_name,
                                        merge.entity_type, keep_id)
        THEN failed([db EXCEPT !.relationships = rels2, !.entities = ents1])
        ELSE [db |-> [db EXCEPT
                        !.relationships = rels2,
                        !.entities = DeleteEntity(ents2, merge_id),
                        !.enrichment = MoveEnrichment(@, keep_id, merge_id),
                        !.tags = MoveTags(@, keep_id, merge_id),
                        !.aliases = InsertAlias(@, keep_id, merge.name,
                                                merge.normalized_name)],
              ret |-> 1, raised |-> FALSE]

-----------------------------------------------------------------------------
(* EntityResolver: names *)

COMPANY_SUFFIXES ==
    <<<<" ","I","n","c",".">>,
      <<" ","I","n","c">>,
      <<" ","C","o","r","p",".">>,
      <<" ","C","o","r","p">>,
      <<" ","L","L","C">>,
      <<" ","L","t","d",".">>,
      <<" ","L","t","d">>,
      <<" ","C","o","r","p","o","r","a","t","i","o","n">>,
      <<" ","C","o","m","p","a","n","y">>,
      <<" ","C","o",".">>,
      <<" ","C","o">>,
      <<" ","P","L","C">>,
      <<" ","L","P">>,
      <<" ","L","L","P">>,
      <<" ","H","o","l","d","i","n","g","s">>,
      <<" ","G","r","o","u","p">>,
      <<" ","T","e","c","h","n","o","l","o","g","i","e","s">>,
      <<" ","T","e","c","h","n","o","l","o","g","y">>,
      <<" ","S","y","s","t","e","m","s">>>>

INVALID_ENTITIES ==
    <<<<"i","n","v","e","s","t","o","r">>,
      <<"c","o","m","p","a","n","y">>,
      <<"s","t","a","r","t","u","p">>,
      <<"f","i","r","m">>,
      <<"c","o","r","p","o","r","a","t","i","o","n">>,
      <<"e","m","p","l","o","y","e","e","s">>,
      <<"s","t","a","f","f">>,
      <<"t","e","a","m">>,
      <<"p","e","o","p","l","e">>,
      <<"p","e","r","s","o","n">>,
      <<"t","h","e"," ","c","o","m","p","a","n","y">>,
      <<"t","h","e"," ","s","t","a","r","t","u","p">>,
      <<"t","h","e"," ","f","i","r","m">>>>

\* the known aliases: canonical name -> list of aliases
KNOWN_ALIASES ==
    <<
      [canonical |-> <<"n","v","i","d","i","a">>,
       aliases |-> <<<<"n","v","i","d","i","a"," ","c","o","r","p">>,
                     <<"n","v","i","d","i","a"," ","c","o","r","p","o","r","a","t","i","o","n">>,
                     <<"n","v","i","d","i","a"," ","i","n","c">>>>],
      [canonical |-> <<"m","e","t","a">>,
       aliases |-> <<<<"m","e","t","a"," ","p","l","a","t","f","o","r","m","s">>,
                     <<"f","a","c","e","b","o","o","k">>,
                     <<"m","e","t","a"," ","i","n","c">>>>],
      [canonical |-> <<"g","o","o","g","l","e">>,
       aliases |-> <<<<"a","l","p","h","a","b","e","t">>,
                     <<"g","o","o","g","l","e"," ","i","n","c">>,
                     <<"g","o","o","g","l","e"," ","l","l","c">>,
                     <<"a","l","p","h","a","b","e","t"," ","i","n","c">>>>],
      [canonical |-> <<"a","m","a","z","o","n">>,
       aliases |-> <<<<"a","m","a","z","o","n"," ","i","n","c">>,
                     <<"a","m","a","z","o","n",".","c","o","m">>,
                     <<"a","m","a","z","o","n"," ","w","e","b"," ","s","e","r","v","i","c","e","s">>,
                     <<"a","w","s">>>>],
      [canonical |-> <<"m","i","c","r","o","s","o","f","t">>,
       aliases |-> <<<<"m","i","c","r","o","s","o","f","t"," ","c","o","r","p">>,
                     <<"m","i","c","r","o","s","o","f","t"," ","c","o","r","p","o","r","a","t","i","o","n">>,
                     <<"m","s","f","t">>>>],
      [canonical |-> <<"a","p","p","l","e">>,
       aliases |-> <<<<"a","p","p","l","e"," ","i","n","c">>,
                     <<"a","p","p","l","e"," ","c","o","m","p","u","t","e","r">>>>],
      [canonical |-> <<"o","p","e","n","a","i">>,
       aliases |-> <<<<"o","p","e","n"," ","a","i">>,
                     <<"o","p","e","n","a","i"," ","i","n","c">>>>],
      [canonical |-> <<"a","n","t","h","r","o","p","i","c">>,
       aliases |-> <<<<"a","n","t","h","r","o","p","i","c"," ","a","i">>,
                     <<"a","n","t","h","r","o","p","i","c"," ","i","n","c">>>>]
    >>

\* the test of find_canonical (line 71) on a normalized name: the entries of
\* KNOWN_ALIASES the name is the canonical name or an alias of
KnownAliasSets(normalized) ==
    {i \in 1..Len(KNOWN_ALIASES) :
        \/ normalized = KNOWN_ALIASES[i].canonical
        \/ \E j \in 1..Len(KNOWN_ALIASES[i].aliases) :
              normalized = KNOWN_ALIASES[i].aliases[j]}

\* \w of the re module, on the characters of the model
WordChars ==
    {LowerCase[i] : i \in 1..26} \cup {UpperCase[i] : i \in 1..26} \cup Digits \cup {"_"}

IsWordChar(c) == c \in WordChars

\* the for loop of normalize_name: every suffix of the list is tried once, in
\* list order, on what the earlier ones left
RECURSIVE StripSuffixes(_, _)
StripSuffixes(normalized, i) ==
    IF i > Len(COMPANY_SUFFIXES) THEN normalized
    ELSE LET suffix == Lower(COMPANY_SUFFIXES[i])
         IN  IF EndsWith(normalized, suffix)
             THEN StripSuffixes(
                     Strip(SubSeq(normalized, 1, Len(normalized) - Len(suffix))),
                     i + 1)
             ELSE StripSuffixes(normalized, i + 1)

\* re.sub(r'[^\w\s]', '', s)
RECURSIVE RemoveSpecial(_)
RemoveSpecial(s) ==
    IF s = <<>> THEN <<>>
    ELSE IF IsWordChar(Head(s)) \/ Head(s) \in Whitespace
         THEN <<Head(s)>> \o RemoveSpecial(Tail(s))
         ELSE RemoveSpecial(Tail(s))

\* re.sub(r'\s+', ' ', s)
RECURSIVE CollapseSpaces(_)
CollapseSpaces(s) ==
    IF s = <<>> THEN <<>>
    ELSE IF Head(s) \in Whitespace
         THEN <<" ">> \o CollapseSpaces(LStrip(s))
         ELSE <<Head(s)>> \o CollapseSpaces(Tail(s))

\* EntityResolver.normalize_name
normalize_name(name) ==
    Strip(CollapseSpaces(RemoveSpecial(StripSuffixes(Strip(Lower(name)), 1))))

(* difflib.SequenceMatcher(None, a, b) without junk (autojunk needs 200     *)
(* elements): find_longest_match returns the longest common block, the one  *)
(* starting earliest in a, and of those the one starting earliest in b;     *)
(* get_matching_blocks recurses to the left and to the right of it.         *)
CommonBlocks(a, alo, ahi, b, blo, bhi) ==
    {t \in (alo..ahi) \X (blo..bhi) \X (1..(ahi - alo + 1)) :
        /\ t[1] + t[3] - 1 <= ahi
        /\ t[2] + t[3] - 1 <= bhi
        /\ \A x \in 0..(t[3] - 1) : a[t[1] + x] = b[t[2] + x]}

FindLongestMatch(a, alo, ahi, b, blo, bhi) ==
    LET blocks == CommonBlocks(a, alo, ahi, b, blo, bhi)
    IN  CHOOSE t \in blocks :
            \A u \in blocks :
                \/ t[3] > u[3]
                \/ t[3] = u[3] /\ t[1] < u[1]
                \/ t[3] = u[3] /\ t[1] = u[1] /\ t[2] <= u[2]

RECURSIVE MatchingSize(_, _, _, _, _, _)
MatchingSize(a, alo, ahi, b, blo, bhi) ==
    IF alo > ahi \/ blo > bhi \/ CommonBlocks(a, alo, ahi, b, blo, bhi) = {}
    THEN 0
    ELSE LET m == FindLongestMatch(a, alo, ahi, b, blo, bhi)
         IN  m[3] + MatchingSize(a, alo, m[1] - 1, b, blo, m[2] - 1)
                  + MatchingSize(a, m[1] + m[3], ahi, b, m[2] + m[3], bhi)

\* the default threshold of find_duplicates, in hundredths
DUPLICATE_THRESHOLD == 85

\* EntityResolver.similarity(name1, name2) >= threshold / 100, where
\* ratio() is 2.0 * matches / (len(a) + len(b)), and 1.0 when both are empty
SimilarityAtLeast(name1, name2, threshold) ==
    LET n1 == normalize_name(name1)
        n2 == normalize_name(name2)
        total == Len(n1) + Len(n2)
    IN  IF total = 0 THEN 100 >= threshold
        ELSE 200 * MatchingSize(n1, 1, Len(n1), n2, 1, Len(n2)) >= threshold * total

-----------------------------------------------------------------------------
(* EntityResolver: the passes *)

\* the row orders that ORDER BY mention_count DESC may produce: SQL leaves the
\* order of rows with equal mention_count open
MentionOrders(rows) ==
    LET n == Cardinality(rows)
    IN  {ord \in [1..n -> rows] :
            /\ \A i \in 1..n, j \in 1..n : i # j => ord[i] # ord[j]
            /\ \A i \in 1..n, j \in 1..n :
                    i < j => ord[i].mention_count >= ord[j].mention_count}

\* the type test of find_duplicates: same type, or one side unknown
Comparable(e1, e2) ==
    \/ e1.entity_type = e2.entity_type
    \/ e1.entity_type = "unknown"
    \/ e2.entity_type = "unknown"

\* the nested loops of find_duplicates over the rows in the order ord:
\* the pairs <<entity1_id, entity2_id>> from position <<i, j>> on
RECURSIVE DuplicatePairs(_, _, _, _)
DuplicatePairs(ord, i, j, threshold) ==
    IF i > Len(ord) THEN <<>>
    ELSE IF j > Len(ord) THEN DuplicatePairs(ord, i + 1, i + 2, threshold)
    ELSE IF Comparable(ord[i], ord[j])
            /\ SimilarityAtLeast(ord[i].name, ord[j].name, threshold)
         THEN <<(<<ord[i].id, ord[j].id>>)>> \o DuplicatePairs(ord, i, j + 1, threshold)
         ELSE DuplicatePairs(ord, i, j + 1, threshold)

\* EntityResolver.find_duplicates, for one order of the rows
find_duplicates(ord, threshold) == DuplicatePairs(ord, 1, 2, threshold)

\* mutant of IsInvalidName: the name is compared as stored, not lowercased
IsInvalidName_CaseSensitive(name) ==
    \E i \in 1..Len(INVALID_ENTITIES) : name = Lower(INVALID_ENTITIES[i])

\* SQLite's LOWER(name) = invalid.lower() for some entry of INVALID_ENTITIES
IsInvalidName(name) ==
    \E i \in 1..Len(INVALID_ENTITIES) : Lower(name) = Lower(INVALID_ENTITIES[i])

\* mutant of remove_invalid_entities: the relationships are not deleted first
remove_invalid_entities_KeepRelationships(db) ==
    LET gone == {e.id : e \in {x \in db.entities : IsInvalidName(x.name)}}
    IN  [db |-> [db EXCEPT !.entities = {e \in @ : e.id \notin gone}],
         ret |-> Cardinality(gone), raised |-> FALSE]

\* EntityResolver.remove_invalid_entities
remove_invalid_entities(db) ==
    LET gone == {e.id : e \in {x \in db.entities : IsInvalidName(x.name)}}
    IN  [db |-> [db EXCEPT
                    !.relationships =
                        {r \in @ : r.subject_id \notin gone /\ r.object_id \notin gone},
                    !.entities = {e \in @ : e.id \notin gone}],
         ret |-> Cardinality(gone), raised |-> FALSE]

\* COUNT(*) of the relationships with the entity on one side and a predicate
\* of the set
CountSubject(rels, entity_id, predicates) ==
    Cardinality({r \in rels : r.subject_id = entity_id /\ r.predicate \in predicates})

CountObject(rels, entity_id, predicates) ==
    Cardinality({r \in rels : r.object_id = entity_id /\ r.predicate \in predicates})

\* "Determine type" of fix_entity_types; "none" stands for new_type = None
InferType(rels, entity_id) ==
    LET funded == CountSubject(rels, entity_id, {"FUNDED_BY"})
        hiring == CountObject(rels, entity_id, {"HIRED_BY"})
        acquiring == CountSubject(rels, entity_id, {"ACQUIRED"})
        hired == CountSubject(rels, entity_id, {"HIRED_BY"})
        exec_role == CountSubject(rels, entity_id,
                                  {"CEO_OF", "CTO_OF", "CFO_OF", "FOUNDED"})
    IN  IF exec_role > 0 \/ hired > 0 THEN "person"
        ELSE IF funded > 0 \/ hiring > 0 \/ acquiring > 0 THEN "company"
        ELSE "none"

\* ids in ascending order (the rows of a SELECT without ORDER BY)
RECURSIVE AscendingIds(_)
AscendingIds(ids) ==
    IF ids = {} THEN <<>>
    ELSE LET m == CHOOSE x \in ids : \A y \in ids : x <= y
         IN  <<m>> \o AscendingIds(ids \ {m})

\* the loop of fix_entity_types over the rows fetched before it; an UPDATE
\* that hits UNIQUE(normalized_name, entity_type) raises IntegrityError out
\* of the with-block, so nothing of the pass is committed
RECURSIVE FixTypesLoop(_, _, _, _, _)
FixTypesLoop(db0, rows, ids, i, fixed) ==
    IF i > Len(ids) THEN [db |-> [db0 EXCEPT !.entities = rows],
                          ret |-> fixed, raised |-> FALSE]
    ELSE LET e == CHOOSE x \in rows : x.id = ids[i]
             new_type == InferType(db0.relationships, e.id)
         IN  IF new_type = "none" THEN FixTypesLoop(db0, rows, ids, i + 1, fixed)
             ELSE IF EntityKeyTaken(rows, e.normalized_name, new_type, e.id)
             THEN [db |-> db0, ret |-> NULL, raised |-> TRUE]
             ELSE FixTypesLoop(db0, SetEntityType(rows, e.id, new_type), ids,
                               i + 1, fixed + 1)

\* EntityResolver.fix_entity_types
fix_entity_types(db) ==
    LET unknown == {e.id : e \in {x \in db.entities : x.entity_type = "unknown"}}
    IN  FixTypesLoop(db, db.entities, AscendingIds(unknown), 1, 0)

NoCounts ==
    [invalid_removed |-> 0, types_fixed |-> 0, duplicates_found |-> 0,
     duplicates_merged |-> 0]

\* the for loop of run_all over the reported pairs
RECURSIVE MergeLoop(_, _, _, _)
MergeLoop(db, pairs, i, merged) ==
    IF i > Len(pairs) THEN [db |-> db, merged |-> merged]
    ELSE LET m == merge_entities(db, pairs[i][1], pairs[i][2])
         IN  MergeLoop(m.db, pairs, i + 1, merged + m.ret)

\* mutant of run_all: the entities are retyped before the invalid ones are
\* removed
run_all_RetypeFirst(db) ==
    LET typed == fix_entity_types(db)
        removed == remove_invalid_entities(typed.db)
    IN  IF typed.raised
        THEN {[db |-> db, ret |-> NULL, raised |-> TRUE, counts |-> NoCounts]}
        ELSE {LET pairs == find_duplicates(ord, DUPLICATE_THRESHOLD)
                  done == MergeLoop(removed.db, pairs, 1, 0)
              IN  [db |-> done.db, ret |-> 1, raised |-> FALSE,
                   counts |-> [invalid_removed |-> removed.ret,
                               types_fixed |-> typed.ret,
                               duplicates_found |-> Len(pairs),
                               duplicates_merged |-> done.merged]]
                : ord \in MentionOrders(removed.db.entities)}

\* EntityResolver.run_all: the outcomes, one for each order the duplicate
\* scan may read the rows in. An exception of fix_entity_types leaves
\* run_all after remove_invalid_entities has committed.
run_all(db) ==
    LET removed == remove_invalid_entities(db)
        typed == fix_entity_types(removed.db)
    IN  IF typed.raised
        THEN {[db |-> removed.db, ret |-> NULL, raised |-> TRUE, counts |-> NoCounts]}
        ELSE {LET pairs == find_duplicates(ord, DUPLICATE_THRESHOLD)
                  done == MergeLoop(typed.db, pairs, 1, 0)
              IN  [db |-> done.db, ret |-> 1, raised |-> FALSE,
                   counts |-> [invalid_removed |-> removed.ret,
                               types_fixed |-> typed.ret,
                               duplicates_found |-> Len(pairs),
                               duplicates_merged |-> done.merged]]
                : ord \in MentionOrders(typed.db.entities)}

-----------------------------------------------------------------------------
(* CrossReferencer (src/validation/cross_reference.py)                     *)
(*                                                                         *)
(* A similarity, a score and a confidence are floats in the code; here a   *)
(* similarity and a score are exact fractions [num, den] and a confidence  *)
(* or threshold is a number of hundredths. A datetime is a number of ticks,*)
(* TicksPerDay of them to the day; an amount that is None is NO_AMOUNT.    *)

\* FundingEvent.amount = None
NO_AMOUNT == 0 - 1

\* the list suffixes of normalize_company_name
CROSSREF_SUFFIXES ==
    <<<<" ","i","n","c",".">>,
      <<" ","i","n","c">>,
      <<" ","c","o","r","p",".">>,
      <<" ","c","o","r","p">>,
      <<" ","l","l","c">>,
      <<" ","l","t","d",".">>,
      <<" ","l","t","d">>,
      <<" ","c","o","r","p","o","r","a","t","i","o","n">>,
      <<" ","c","o","m","p","a","n","y">>,
      <<" ","c","o",".">>,
      <<" ","c","o">>,
      <<" ","p","l","c">>,
      <<" ","l","p">>,
      <<" ","l","l","p">>,
      <<" ","h","o","l","d","i","n","g","s">>,
      <<" ","g","r","o","u","p">>,
      <<" ","t","e","c","h","n","o","l","o","g","i","e","s">>,
      <<" ","t","e","c","h","n","o","l","o","g","y">>,
      <<" ","s","y","s","t","e","m","s">>,
      <<" ","s","o","l","u","t","i","o","n","s">>,
      <<" ","s","o","f","t","w","a","r","e">>,
      <<" ","l","a","b","s">>,
      <<" ","a","i">>,
      <<" ","i","o">>>>

\* the for loop of normalize_company_name over its suffixes
RECURSIVE StripCompanySuffixes(_, _)
StripCompanySuffixes(name, i) ==
    IF i > Len(CROSSREF_SUFFIXES) THEN name
    ELSE IF EndsWith(name, CROSSREF_SUFFIXES[i])
         THEN StripCompanySuffixes(
                 Strip(SubSeq(name, 1, Len(name) - Len(CROSSREF_SUFFIXES[i]))), i + 1)
         ELSE StripCompanySuffixes(name, i + 1)

\* CrossReferencer.normalize_company_name
normalize_company_name(name) ==
    Strip(CollapseSpaces(RemoveSpecial(StripCompanySuffixes(Strip(Lower(name)), 1))))

\* the length of the longest common subsequence of a and b
RECURSIVE LcsLength(_, _)
LcsLength(a, b) ==
    IF a = <<>> \/ b = <<>> THEN 0
    ELSE IF Head(a) = Head(b) THEN 1 + LcsLength(Tail(a), Tail(b))
    ELSE LET x == LcsLength(Tail(a), b)
             y == LcsLength(a, Tail(b))
         IN  IF x >= y THEN x ELSE y

\* CrossReferencer.name_similarity as a fraction. With rapidfuzz installed it
\* is fuzz.ratio / 100, the normalized indel similarity 2 * LCS / (|a| + |b|);
\* without, SequenceMatcher(None, n1, n2).ratio(). Both are 1 for two empty
\* names.
name_similarity(name1, name2, using_rapidfuzz) ==
    LET n1 == normalize_company_name(name1)
        n2 == normalize_company_name(name2)
        total == Len(n1) + Len(n2)
    IN  IF total = 0 THEN [num |-> 1, den |-> 1]
        ELSE IF using_rapidfuzz THEN [num |-> 2 * LcsLength(n1, n2), den |-> total]
        ELSE [num |-> 2 * MatchingSize(n1, 1, Len(n1), n2, 1, Len(n2)), den |-> total]

\* fraction f against a number of hundredths
FracBelow(f, hundredths) == 100 * f.num < hundredths * f.den
FracAbove(f, hundredths) == 100 * f.num > hundredths * f.den
\* mutant of FracGreater: greater or equal, so that the last of several
\* filings of equal score becomes the best match
FracGreater_OrEqual(f, g) == f.num * g.den >= g.num * f.den
\* fraction f greater than fraction g
FracGreater(f, g) == f.num * g.den > g.num * f.den

\* CrossReferencer.amounts_compatible, the tolerance in hundredths
amounts_compatible(amount1, amount2, amount_tolerance) ==
    IF amount1 = NO_AMOUNT \/ amount2 = NO_AMOUNT THEN TRUE
    ELSE IF amount1 = 0 \/ amount2 = 0 THEN TRUE
    ELSE LET diff == IF amount1 >= amount2 THEN amount1 - amount2
                     ELSE amount2 - amount1
             larger == IF amount1 >= amount2 THEN amount1 ELSE amount2
         IN  100 * diff <= amount_tolerance * larger

\* ticks of a datetime to the day
TicksPerDay == 2

\* abs((date1 - date2).days): timedelta.days is the floor of the difference
DateDiffDays(date1, date2) ==
    LET days == (date1 - date2) \div TicksPerDay
    IN  IF days < 0 THEN 0 - days ELSE days

\* CrossReferencer._calculate_match_score for date_window_days > 0 (a filing
\* passes the date filter of a negative window never, and with the window 0
\* the division raises ZeroDivisionError): name_sim * 0.5, plus 0.3 times
\* max(0, (window - date_diff) / window), plus 0.2 for an amount match, capped
\* at 1.0; as a fraction over 10 * name_sim.den * window
calculate_match_score(name_sim, date_diff, amount_match, date_window_days) ==
    LET den == 10 * name_sim.den * date_window_days
        closeness == IF date_window_days - date_diff > 0
                     THEN date_window_days - date_diff ELSE 0
        num == 5 * name_sim.num * date_window_days
               + 3 * closeness * name_sim.den
               + (IF amount_match THEN 2 * name_sim.den * date_window_days ELSE 0)
    IN  [num |-> IF num > den THEN den ELSE num, den |-> den]

\* the inner loop of match_news_to_form_d for one news event: the best match
\* so far is best (<<>> for None, best_score 0), j is the next filing
RECURSIVE BestMatch(_, _, _, _, _)
BestMatch(news, form_d_events, j, best, self) ==
    IF j > Len(form_d_events) THEN [best |-> best, raised |-> FALSE]
    ELSE LET form_d == form_d_events[j]
             name_sim == name_similarity(news.company_name, form_d.company_name,
                                         self.using_rapidfuzz)
             date_diff == DateDiffDays(news.date, form_d.date)
             amount_match == amounts_compatible(news.amount, form_d.amount,
                                                self.amount_tolerance)
             score == calculate_match_score(name_sim, date_diff, amount_match,
                                            self.date_window_days)
             better == IF best = <<>> THEN score.num > 0
                       ELSE FracGreater(score, best[1].combined_confidence)
         IN  IF FracBelow(name_sim, self.name_threshold)
             THEN BestMatch(news, form_d_events, j + 1, best, self)
             ELSE IF date_diff > self.date_window_days
             THEN BestMatch(news, form_d_events, j + 1, best, self)
             ELSE IF self.date_window_days = 0
             THEN [best |-> <<>>, raised |-> TRUE]
             ELSE IF better
             THEN BestMatch(news, form_d_events, j + 1,
                            <<[news |-> news, form_d |-> form_d,
                               name_similarity |-> name_sim,
                               date_diff_days |-> date_diff,
                               amount_match |-> amount_match,
                               combined_confidence |-> score]>>, self)
             ELSE BestMatch(news, form_d_events, j + 1, best, self)

\* the outer loop of match_news_to_form_d from news event i on
RECURSIVE MatchLoop(_, _, _, _, _)
MatchLoop(news_events, form_d_events, i, matches, self) ==
    IF i > Len(news_events) THEN [ret |-> matches, raised |-> FALSE]
    ELSE LET found == BestMatch(news_events[i], form_d_events, 1, <<>>, self)
         IN  IF found.raised THEN [ret |-> <<>>, raised |-> TRUE]
             ELSE MatchLoop(news_events, form_d_events, i + 1,
                            matches \o found.best, self)

\* CrossReferencer.match_news_to_form_d; self holds name_threshold,
\* date_window_days, amount_tolerance and the build (using_rapidfuzz)
match_news_to_form_d(self, news_events, form_d_events) ==
    MatchLoop(news_events, form_d_events, 1, <<>>, self)

\* the boost of one match in boost_confidence, in hundredths
BoostedConfidence(match) ==
    LET base == IF /\ match.amount_match
                   /\ match.news.amount # NO_AMOUNT /\ match.news.amount # 0
                   /\ match.form_d.amount # NO_AMOUNT /\ match.form_d.amount # 0
                THEN 95 ELSE 90
    IN  IF FracAbove(match.name_similarity, 95)
        THEN (IF base + 3 > 98 THEN 98 ELSE base + 3)
        ELSE base

\* the loop of boost_confidence: a later match of the same normalized company
\* name replaces the entry of an earlier one
RECURSIVE BoostLoop(_, _, _)
BoostLoop(matches, i, boosts) ==
    IF i > Len(matches) THEN boosts
    ELSE LET match == matches[i]
             company == normalize_company_name(match.news.company_name)
             entry == [original_confidence |-> match.news.confidence,
                       boosted_confidence |-> BoostedConfidence(match),
                       form_d_amount |-> match.form_d.amount,
                       news_amount |-> match.news.amount,
                       form_d_date |-> match.form_d.date,
                       verified |-> TRUE]
         IN  BoostLoop(matches, i + 1,
                       [c \in DOMAIN boosts \cup {company} |->
                           IF c = company THEN entry ELSE boosts[c]])

\* CrossReferencer.boost_confidence: the dict, as a function of its keys
boost_confidence(matches) == BoostLoop(matches, 1, <<>>)

-----------------------------------------------------------------------------
(* migrate_to_supabase: kg_entities and kg_relationships to the target store *)

\* migrate_entities: the mapping of SQLite ids to the ids the target returned
\* (RETURNING id), written as negative numbers, which no SQLite id is; an
\* entity whose INSERT raised is printed and left out of the mapping
migrate_entities(db, failed) ==
    [id \in {e.id : e \in db.entities} \ failed |-> 0 - id]

\* entity_id_mapping.get(id): None for an id without entry
MappedId(entity_id_mapping, id) ==
    IF id \in DOMAIN entity_id_mapping THEN entity_id_mapping[id] ELSE NULL

\* mutant of Unmapped: only the subject is looked at
Unmapped_SubjectOnly(rel, entity_id_mapping) ==
    MappedId(entity_id_mapping, rel.subject_id) = NULL

\* not subject_uuid or not object_uuid
Unmapped(rel, entity_id_mapping) ==
    \/ MappedId(entity_id_mapping, rel.subject_id) = NULL
    \/ MappedId(entity_id_mapping, rel.object_id) = NULL

\* the row of the INSERT of migrate_relationships for the row rel of the
\* SELECT: the seven columns it names; start_date and metadata are not named
\* and hold the default of their column in the target
MigratedRow(rel, entity_id_mapping, start_date_default) ==
    [subject_id |-> MappedId(entity_id_mapping, rel.subject_id),
     predicate |-> rel.predicate,
     object_id |-> MappedId(entity_id_mapping, rel.object_id),
     context |-> rel.context,
     source_url |-> rel.source_url,
     confidence |-> IF rel.confidence = NULL \/ rel.confidence = 0
                    THEN 80 ELSE rel.confidence,
     start_date |-> start_date_default,
     metadata |-> NULL_JSON]

\* ON CONFLICT DO NOTHING: the row collides with a row of the target when the
\* target declares subject, predicate and object unique
MigrationConflict(target, row, unique_key) ==
    /\ unique_key
    /\ \E k \in 1..Len(target) :
          /\ target[k].subject_id = row.subject_id
          /\ target[k].predicate = row.predicate
          /\ target[k].object_id = row.object_id

\* the loop of migrate_relationships over the rows rels still to visit, in
\* the order of their ids; out holds the target's rows, count and skipped;
\* raising are the ids of the rows whose INSERT raised
RECURSIVE MigrateLoop(_, _, _, _, _, _)
MigrateLoop(rels, out, entity_id_mapping, unique_key, start_date_default, raising) ==
    IF rels = {} THEN out
    ELSE LET rel == CHOOSE r \in rels : \A x \in rels : r.id <= x.id
             rest == rels \ {rel}
             row == MigratedRow(rel, entity_id_mapping, start_date_default)
             next ==
                 IF Unmapped(rel, entity_id_mapping) \/ rel.id \in raising
                 THEN [out EXCEPT !.skipped = @ + 1]
                 ELSE IF MigrationConflict(out.rows, row, unique_key)
                      THEN [out EXCEPT !.count = @ + 1]
                      ELSE [out EXCEPT !.rows = Append(@, row), !.count = @ + 1]
         IN  MigrateLoop(rest, next, entity_id_mapping, unique_key,
                         start_date_default, raising)

\* migrate_relationships: the rows of the target's relationships table, the
\* count it returns and the skipped count it prints
migrate_relationships(db, entity_id_mapping, unique_key, start_date_default, raising) ==
    MigrateLoop(db.relationships, [rows |-> <<>>, count |-> 0, skipped |-> 0],
                entity_id_mapping, unique_key, start_date_default, raising)

-----------------------------------------------------------------------------
(* SourceValidator (src/validation/source_validator.py); a base confidence *)
(* and a stored confidence are numbers of hundredths                       *)

\* SOURCE_TIERS, in the order of the dict
SOURCE_TIERS ==
    <<[name |-> "Bloomberg", domain |-> <<"b","l","o","o","m","b","e","r","g",".","c","o","m">>,
      tier |-> 1, base_confidence |-> 95],
     [name |-> "Wall Street Journal", domain |-> <<"w","s","j",".","c","o","m">>,
      tier |-> 1, base_confidence |-> 95],
     [name |-> "Reuters", domain |-> <<"r","e","u","t","e","r","s",".","c","o","m">>,
      tier |-> 1, base_confidence |-> 95],
     [name |-> "SEC EDGAR", domain |-> <<"s","e","c",".","g","o","v">>,
      tier |-> 1, base_confidence |-> 100],
     [name |-> "Crunchbase", domain |-> <<"c","r","u","n","c","h","b","a","s","e",".","c","o","m">>,
      tier |-> 1, base_confidence |-> 90],
     [name |-> "Crunchbase News", domain |-> <<"n","e","w","s",".","c","r","u","n","c","h","b","a","s","e",".","c","o","m">>,
      tier |-> 1, base_confidence |-> 90],
     [name |-> "TechCrunch", domain |-> <<"t","e","c","h","c","r","u","n","c","h",".","c","o","m">>,
      tier |-> 2, base_confidence |-> 85],
     [name |-> "GeekWire", domain |-> <<"g","e","e","k","w","i","r","e",".","c","o","m">>,
      tier |-> 2, base_confidence |-> 85],
     [name |-> "VentureBeat", domain |-> <<"v","e","n","t","u","r","e","b","e","a","t",".","c","o","m">>,
      tier |-> 2, base_confidence |-> 85],
     [name |-> "Techmeme", domain |-> <<"t","e","c","h","m","e","m","e",".","c","o","m">>,
      tier |-> 2, base_confidence |-> 80],
     [name |-> "Axios", domain |-> <<"a","x","i","o","s",".","c","o","m">>,
      tier |-> 2, base_confidence |-> 85],
     [name |-> "The Verge", domain |-> <<"t","h","e","v","e","r","g","e",".","c","o","m">>,
      tier |-> 2, base_confidence |-> 80],
     [name |-> "Wired", domain |-> <<"w","i","r","e","d",".","c","o","m">>,
      tier |-> 2, base_confidence |-> 80],
     [name |-> "Fortune", domain |-> <<"f","o","r","t","u","n","e",".","c","o","m">>,
      tier |-> 2, base_confidence |-> 85],
     [name |-> "Forbes", domain |-> <<"f","o","r","b","e","s",".","c","o","m">>,
      tier |-> 2, base_confidence |-> 80],
     [name |-> "PR Newswire", domain |-> <<"p","r","n","e","w","s","w","i","r","e",".","c","o","m">>,
      tier |-> 3, base_confidence |-> 70],
     [name |-> "Business Wire", domain |-> <<"b","u","s","i","n","e","s","s","w","i","r","e",".","c","o","m">>,
      tier |-> 3, base_confidence |-> 70],
     [name |-> "SiliconANGLE", domain |-> <<"s","i","l","i","c","o","n","a","n","g","l","e",".","c","o","m">>,
      tier |-> 3, base_confidence |-> 75],
     [name |-> "Inc", domain |-> <<"i","n","c",".","c","o","m">>,
      tier |-> 3, base_confidence |-> 75],
     [name |-> "Fast Company", domain |-> <<"f","a","s","t","c","o","m","p","a","n","y",".","c","o","m">>,
      tier |-> 3, base_confidence |-> 75],
     [name |-> "Ars Technica", domain |-> <<"a","r","s","t","e","c","h","n","i","c","a",".","c","o","m">>,
      tier |-> 3, base_confidence |-> 75],
     [name |-> "Hacker News", domain |-> <<"n","e","w","s",".","y","c","o","m","b","i","n","a","t","o","r",".","c","o","m">>,
      tier |-> 3, base_confidence |-> 60]>>

\* DEFAULT_SOURCE
DEFAULT_SOURCE ==
    [name |-> "Unknown", domain |-> <<"u","n","k","n","o","w","n">>,
     tier |-> 3, base_confidence |-> 50]

\* str.split(sep) for a separator of one character
RECURSIVE SplitOn(_, _, _)
SplitOn(s, sep, part) ==
    IF s = <<>> THEN <<part>>
    ELSE IF Head(s) = sep THEN <<part>> \o SplitOn(Tail(s), sep, <<>>)
    ELSE SplitOn(Tail(s), sep, Append(part, Head(s)))

\* str.startswith(prefix)
StartsWith(s, prefix) ==
    /\ Len(prefix) <= Len(s)
    /\ SubSeq(s, 1, Len(prefix)) = prefix

\* the loop "Try subdomain matching": the index of the first entry of
\* SOURCE_TIERS that domain ends with, or 0
SuffixMatch(domain) ==
    IF \E i \in 1..Len(SOURCE_TIERS) : EndsWith(domain, SOURCE_TIERS[i].domain)
    THEN CHOOSE i \in 1..Len(SOURCE_TIERS) :
            /\ EndsWith(domain, SOURCE_TIERS[i].domain)
            /\ \A j \in 1..(i - 1) : ~EndsWith(domain, SOURCE_TIERS[j].domain)
    ELSE 0

\* SourceValidator.get_source_quality; a url that is None or empty is <<>>
get_source_quality(url) ==
    IF url = <<>> THEN DEFAULT_SOURCE
    ELSE LET parts == SplitOn(url, "/", <<>>)
         IN  IF Len(parts) < 3 THEN DEFAULT_SOURCE
             ELSE LET host == Lower(parts[3])
                      domain == IF StartsWith(host, <<"w","w","w",".">>)
                                THEN SubSeq(host, 5, Len(host)) ELSE host
                  IN  IF \E i \in 1..Len(SOURCE_TIERS) : SOURCE_TIERS[i].domain = domain
                      THEN SOURCE_TIERS[CHOOSE i \in 1..Len(SOURCE_TIERS) :
                                           SOURCE_TIERS[i].domain = domain]
                      ELSE IF SuffixMatch(domain) # 0
                      THEN SOURCE_TIERS[SuffixMatch(domain)]
                      ELSE DEFAULT_SOURCE

\* round(x, 2) of a product p of two numbers of hundredths: the nearest
\* number of hundredths; halfway between two, the float that the product is
\* decides, and both are possible
Round2(p) ==
    IF p % 100 < 50 THEN {p \div 100}
    ELSE IF p % 100 > 50 THEN {p \div 100 + 1}
    ELSE {p \div 100, p \div 100 + 1}

\* SourceValidator.calculate_relationship_confidence: the values it may
\* return; 50 (0.5) for an id without row
calculate_relationship_confidence(db, rel_id) ==
    IF ~\E r \in db.relationships : r.id = rel_id THEN {50}
    ELSE LET row == CHOOSE r \in db.relationships : r.id = rel_id
             source_quality == get_source_quality(row.source_url)
             base_confidence == IF row.confidence = NULL \/ row.confidence = 0
                                THEN 80 ELSE row.confidence
         IN  Round2(base_confidence * source_quality.base_confidence)

-----------------------------------------------------------------------------
(* EntityResolver.find_canonical *)

\* KnowledgeGraph.get_entity(name, entity_type): the ids of the rows the
\* SELECT may return first; entity_type "" is None, no filter on the type
get_entity(db, name, entity_type) ==
    {e.id : e \in {x \in db.entities :
                      /\ x.normalized_name = NormalizedKey(name)
                      /\ entity_type # "" => x.entity_type = entity_type}}

\* the loop over KNOWN_ALIASES of find_canonical from entry i on: the
\* outcomes [ret, cache], ret NULL for None
RECURSIVE KnownAliasLoop(_, _, _, _, _)
KnownAliasLoop(db, cache, normalized, entity_type, i) ==
    IF i > Len(KNOWN_ALIASES) THEN {[ret |-> NULL, cache |-> cache]}
    ELSE IF i \in KnownAliasSets(normalized)
            /\ get_entity(db, KNOWN_ALIASES[i].canonical, entity_type) # {}
         THEN {[ret |-> id,
                cache |-> [n \in DOMAIN cache \cup {normalized} |->
                              IF n = normalized THEN id ELSE cache[n]]]
                  : id \in get_entity(db, KNOWN_ALIASES[i].canonical, entity_type)}
         ELSE KnownAliasLoop(db, cache, normalized, entity_type, i + 1)

\* EntityResolver.find_canonical on the cache of the instance
find_canonical(db, cache, name, entity_type) ==
    LET normalized == normalize_name(name)
    IN  IF normalized \in DOMAIN cache
        THEN {[ret |-> cache[normalized], cache |-> cache]}
        ELSE KnownAliasLoop(db, cache, normalized, entity_type, 1)

-----------------------------------------------------------------------------
(* Inputs of the calls *)

\* names given to add_entity: a name, the same name in another case and with
\* leading whitespace, the name with a legal suffix, and a blacklisted name
Names ==
    {<<"a","b">>, <<" ","A","b">>, <<"a","b"," ","c","o">>, <<"T","e","a","m">>}
Types == {"company", "unknown"}
AttributeInputs == {NULL_JSON}
\* subjects and objects given to add_relationship
Endpoints ==
    {[name |-> <<"a","b">>, type |-> "unknown"],
     [name |-> <<"a","b"," ","c","o">>, type |-> "company"],
     [name |-> <<"T","e","a","m">>, type |-> "company"]}
Predicates == {"HIRED_BY"}
EventDates == {NULL, 1}
Payloads ==
    {[confidence |-> 90, context |-> "c1", source_url |-> "u1", metadata |-> NULL_JSON]}
Sources == {"web"}
DataInputs == {<<"d">>}
TagInputs == {<<"H","o","t">>}
Workers == {1, 2}

-----------------------------------------------------------------------------
(* Sequential operations: every call runs to its return *)

\* the sum of mention_count over the rows
RECURSIVE TotalMentions(_)
TotalMentions(rows) ==
    IF rows = {} THEN 0
    ELSE LET e == CHOOSE x \in rows : TRUE
         IN  e.mention_count + TotalMentions(rows \ {e})

WithinBounds(db) ==
    /\ db.seq_entities <= MaxEntityId
    /\ db.seq_relationships <= MaxRelationshipId
    /\ TotalMentions(db.entities) <= MaxMentions

Returned(out) ==
    /\ WithinBounds(out.db)
    /\ entities' = out.db.entities
    /\ aliases' = out.db.aliases
    /\ relationships' = out.db.relationships
    /\ enrichment' = out.db.enrichment
    /\ tags' = out.db.tags
    /\ seq_entities' = out.db.seq_entities
    /\ seq_relationships' = out.db.seq_relationships
    /\ UNCHANGED <<today, alias_cache, pc, call, loc>>

Idle == \A w \in Workers : pc[w] = "idle"

AddEntity(name, entity_type, attributes) ==
    /\ Idle
    /\ Returned(add_entity(Store, name, entity_type, attributes, today))

AddRelationship(subject_name, subject_type, predicate, object_name, object_type, event_date, payload) ==
    /\ Idle
    /\ Returned(add_relationship(Store, subject_name, subject_type, predicate,
                                 object_name, object_type, event_date, payload, today))

AddEnrichment(entity_id, source, data) ==
    /\ Idle
    /\ Returned(add_enrichment(Store, entity_id, source, data))

AddTag(entity_id, tag) ==
    /\ Idle
    /\ Returned(add_tag(Store, entity_id, tag))

MergeEntities(keep_id, merge_id) ==
    /\ Idle
    /\ Returned(merge_entities(Store, keep_id, merge_id))

RemoveInvalidEntities ==
    /\ Idle
    /\ Returned(remove_invalid_entities(Store))

FixEntityTypes ==
    /\ Idle
    /\ Returned(fix_entity_types(Store))

RunAll ==
    /\ Idle
    /\ \E out \in run_all(Store) : Returned(out)

ExistingIds == {e.id : e \in entities}

Init ==
    /\ entities = {}
    /\ aliases = {}
    /\ relationships = {}
    /\ enrichment = {}
    /\ tags = {}
    /\ seq_entities = 0
    /\ seq_relationships = 0
    /\ today = 1
    /\ pc = [w \in Workers |-> "idle"]
    /\ call = [w \in Workers |-> <<>>]
    /\ loc = [w \in Workers |-> <<>>]
    /\ alias_cache = <<>>

Next ==
    \/ \E n \in Names, t \in Types, a \in AttributeInputs : AddEntity(n, t, a)
    \/ \E s \in Endpoints, p \in Predicates, o \in Endpoints, d \in EventDates,
          pl \in Payloads : AddRelationship(s.name, s.type, p, o.name, o.type, d, pl)
    \/ \E k \in 1..seq_entities, m \in 1..seq_entities :
          k # m /\ MergeEntities(k, m)
    \/ RemoveInvalidEntities
    \/ FixEntityTypes
    \/ RunAll

Spec == Init /\ [][Next]_vars

-----------------------------------------------------------------------------
(* Concurrent upserts: two workers, each statement group that one          *)
(* connection commits is one step. add_entity is a SELECT and then a       *)
(* committed UPDATE or INSERT; add_relationship is add_entity for the      *)
(* subject, add_entity for the object and then the committed INSERT.       *)

ConcurrentEndpoints ==
    {[name |-> <<"a","b">>, type |-> "company"],
     [name |-> <<" ","A","b">>, type |-> "company"]}

NoLocals == [stage |-> "none", existing |-> NULL, subject_id |-> NULL,
             object_id |-> NULL, ret |-> NULL]

\* the name and type the current add_entity of worker w is upserting
Upserting(w) ==
    IF call[w].op = "add_entity" \/ loc[w].stage = "subject"
    THEN call[w].subject
    ELSE call[w].object

StoreWritten(db) ==
    /\ WithinBounds(db)
    /\ entities' = db.entities
    /\ aliases' = db.aliases
    /\ relationships' = db.relationships
    /\ enrichment' = db.enrichment
    /\ tags' = db.tags
    /\ seq_entities' = db.seq_entities
    /\ seq_relationships' = db.seq_relationships

StoreUnchanged ==
    UNCHANGED <<entities, aliases, relationships, enrichment, tags, seq_entities,
                seq_relationships>>

\* a worker enters add_entity(name, entity_type)
CallAddEntity(w, e) ==
    /\ pc[w] = "idle"
    /\ pc' = [pc EXCEPT ![w] = "select"]
    /\ call' = [call EXCEPT ![w] =
                  [op |-> "add_entity", subject |-> e, object |-> e,
                   predicate |-> "", event_date |-> NULL,
                   payload |-> CHOOSE pl \in Payloads : TRUE]]
    /\ loc' = [loc EXCEPT ![w] = [NoLocals EXCEPT !.stage = "entity"]]
    /\ StoreUnchanged /\ UNCHANGED <<today, alias_cache, alias_cache>>

\* a worker enters add_relationship(...)
CallAddRelationship(w, s, p, o, d, pl) ==
    /\ pc[w] = "idle"
    /\ pc' = [pc EXCEPT ![w] = "select"]
    /\ call' = [call EXCEPT ![w] =
                  [op |-> "add_relationship", subject |-> s, object |-> o,
                   predicate |-> p, event_date |-> d, payload |-> pl]]
    /\ loc' = [loc EXCEPT ![w] = [NoLocals EXCEPT !.stage = "subject"]]
    /\ StoreUnchanged /\ UNCHANGED <<today, alias_cache, alias_cache>>

\* add_entity, lines 133-137: the SELECT and fetchone()
SelectStep(w) ==
    /\ pc[w] = "select"
    /\ LET found == SelectEntity(Store, NormalizedKey(Upserting(w).name),
                                 Upserting(w).type)
       IN  loc' = [loc EXCEPT ![w].existing =
                      IF found = {} THEN NULL ELSE (CHOOSE e \in found : TRUE).id]
    /\ pc' = [pc EXCEPT ![w] = "write"]
    /\ StoreUnchanged /\ UNCHANGED <<today, alias_cache, call>>

\* where the worker goes when its add_entity has returned id
AfterUpsert(w, id) ==
    IF loc[w].stage = "entity"
    THEN /\ pc' = [pc EXCEPT ![w] = "returned"]
         /\ loc' = [loc EXCEPT ![w].ret = id]
    ELSE IF loc[w].stage = "subject"
    THEN /\ pc' = [pc EXCEPT ![w] = "select"]
         /\ loc' = [loc EXCEPT ![w].subject_id = id, ![w].stage = "object",
                               ![w].existing = NULL]
    ELSE /\ pc' = [pc EXCEPT ![w] = "insert"]
         /\ loc' = [loc EXCEPT ![w].object_id = id]

\* add_entity, lines 139-154: the UPDATE or the INSERT, and the commit. The
\* INSERT of a key another connection has inserted meanwhile raises
\* sqlite3.IntegrityError, which neither add_entity nor add_relationship
\* catches.
WriteStep(w) ==
    /\ pc[w] = "write"
    /\ UNCHANGED <<today, alias_cache, call>>
    /\ IF loc[w].existing # NULL
       THEN /\ StoreWritten(UpdateMention(Store, loc[w].existing, NULL_JSON, today))
            /\ AfterUpsert(w, loc[w].existing)
       ELSE LET out == InsertEntity(Store, Upserting(w).name,
                                    NormalizedKey(Upserting(w).name),
                                    Upserting(w).type, NULL_JSON, today)
            IN  IF out.raised
                THEN /\ pc' = [pc EXCEPT ![w] = "raised"]
                     /\ StoreUnchanged /\ UNCHANGED loc
                ELSE /\ StoreWritten(out.db)
                     /\ AfterUpsert(w, out.ret)

\* add_relationship, lines 204-225: the INSERT of the relationship
InsertStep(w) ==
    /\ pc[w] = "insert"
    /\ LET out == InsertRelationship(Store, loc[w].subject_id, call[w].predicate,
                                     loc[w].object_id, call[w].event_date,
                                     call[w].payload)
       IN  /\ StoreWritten(out.db)
           /\ loc' = [loc EXCEPT ![w].ret = out.ret]
    /\ pc' = [pc EXCEPT ![w] = "returned"]
    /\ UNCHANGED <<today, alias_cache, call>>

\* the call is over: its caller has the result or the exception
ReturnStep(w) ==
    /\ pc[w] \in {"returned", "raised"}
    /\ pc' = [pc EXCEPT ![w] = "idle"]
    /\ call' = [call EXCEPT ![w] = <<>>]
    /\ loc' = [loc EXCEPT ![w] = <<>>]
    /\ StoreUnchanged /\ UNCHANGED <<today, alias_cache, alias_cache>>

NextConcurrent ==
    \E w \in Workers :
        \/ \E e \in ConcurrentEndpoints : CallAddEntity(w, e)
        \/ \E s \in ConcurrentEndpoints, p \in Predicates, o \in ConcurrentEndpoints,
              d \in EventDates, pl \in Payloads : CallAddRelationship(w, s, p, o, d, pl)
        \/ SelectStep(w)
        \/ WriteStep(w)
        \/ InsertStep(w)
        \/ ReturnStep(w)

SpecConcurrent == Init /\ [][NextConcurrent]_vars

-----------------------------------------------------------------------------
(* The resolver on names of the known-alias table *)

\* names of one known-alias set (meta), one of them with a legal suffix
AliasNames ==
    {<<"M","e","t","a"," ","P","l","a","t","f","o","r","m","s">>,
     <<"F","a","c","e","b","o","o","k">>,
     <<"M","e","t","a"," ","I","n","c">>,
     <<"M","e","t","a">>}

NextAlias ==
    \/ \E n \in AliasNames, t \in Types, a \in AttributeInputs : AddEntity(n, t, a)
    \/ RunAll

SpecAlias == Init /\ [][NextAlias]_vars

-----------------------------------------------------------------------------
(* The retype pass on relationships of several predicates *)

TypePredicates == {"DEPARTED_FROM", "FUNDED_BY", "HIRED_BY", "CEO_OF"}

NextTypes ==
    \/ \E s \in Endpoints, p \in TypePredicates, o \in Endpoints, d \in EventDates,
          pl \in Payloads : AddRelationship(s.name, s.type, p, o.name, o.type, d, pl)
    \/ FixEntityTypes

SpecTypes == Init /\ [][NextTypes]_vars

-----------------------------------------------------------------------------
(* Queries on a store of dated and undated relationships *)

\* the worker that calls the read-only and the pure operations
Client == CHOOSE w \in Workers : TRUE

QueryEndpoints ==
    {[name |-> <<"a","b">>, type |-> "unknown"],
     [name |-> <<"a","b"," ","c","o">>, type |-> "company"]}
QueryDates == {NULL, 1, 2}
\* filters on subject and object: none, a part of a name in capitals, and a
\* text with a character that LIKE reads as a wildcard
SubjectFilters == {<<>>, <<"C","O">>, <<"a","_">>}
ObjectFilters == {<<>>, <<"C","O">>}
PredicateFilters == {"", "HIRED_BY", "ACQUIRED"}
SinceDates == {NULL, 1, 2}
Limits == {1, 100}

\* a call of query(subject, predicate, obj, since_date, limit) returns
Query(w, subject, predicate, obj, since_date, limit) ==
    /\ Idle
    /\ pc' = [pc EXCEPT ![w] = "returned"]
    /\ call' = [call EXCEPT ![w] =
                  [op |-> "query", subject |-> subject, predicate |-> predicate,
                   obj |-> obj, since_date |-> since_date, limit |-> limit]]
    /\ loc' = [loc EXCEPT ![w] =
                  [ret |-> query(Store, subject, predicate, obj, since_date, limit)]]
    /\ StoreUnchanged /\ UNCHANGED <<today, alias_cache, alias_cache>>

NextQuery ==
    \/ \E s \in QueryEndpoints, p \in Predicates, o \in QueryEndpoints,
          d \in QueryDates, pl \in Payloads :
              AddRelationship(s.name, s.type, p, o.name, o.type, d, pl)
    \/ \E s \in SubjectFilters, p \in PredicateFilters, o \in ObjectFilters,
          d \in SinceDates, n \in Limits : Query(Client, s, p, o, d, n)
    \/ ReturnStep(Client)

SpecQuery == Init /\ [][NextQuery]_vars

-----------------------------------------------------------------------------
(* Upserts that carry attributes *)

\* attributes given to add_entity: None, the empty dict and two dicts
AttributeValues == {NULL_JSON, EMPTY_DICT, <<"k1">>, <<"k2">>}

NextAttributes ==
    \E n \in Names, t \in Types, a \in AttributeValues : AddEntity(n, t, a)

SpecAttributes == Init /\ [][NextAttributes]_vars

-----------------------------------------------------------------------------
(* normalize_name on names of words, legal suffixes and punctuation *)

NameWords == {<<"x">>, <<"A","b">>}
NameSuffixes ==
    {<<>>,
     <<" ","I","n","c">>,
     <<" ","I","n","c",".">>,
     <<" ","C","o">>,
     <<" ","L","L","C">>,
     <<" ","H","o","l","d","i","n","g","s">>,
     <<" ","G","r","o","u","p">>}
\* a word, up to two suffixes, and punctuation before or after the last suffix
NameInputs ==
    {w \o s1 \o p1 \o s2 \o p2 :
        w \in NameWords, s1 \in NameSuffixes, p1 \in {<<>>, <<",">>},
        s2 \in NameSuffixes, p2 \in {<<>>, <<"!">>}}

\* a call of normalize_name(name) returns
NormalizeName(w, name) ==
    /\ Idle
    /\ pc' = [pc EXCEPT ![w] = "returned"]
    /\ call' = [call EXCEPT ![w] = [op |-> "normalize_name", name |-> name]]
    /\ loc' = [loc EXCEPT ![w] = [ret |-> normalize_name(name)]]
    /\ StoreUnchanged /\ UNCHANGED <<today, alias_cache, alias_cache>>

NextNormalize ==
    \/ \E name \in NameInputs : NormalizeName(Client, name)
    \/ ReturnStep(Client)

SpecNormalize == Init /\ [][NextNormalize]_vars

-----------------------------------------------------------------------------
(* Cross-referencing news with Form D filings *)

MaxNews == 2
MaxFilings == 2

\* the sequences of distinct elements of S of length at most n
ListsOf(S, n) ==
    {l \in UNION {[1..k -> S] : k \in 0..n} :
        \A a \in 1..Len(l), b \in 1..Len(l) : l[a] = l[b] => a = b}

\* news events, at noon of the second day
NewsInputs ==
    {[company_name |-> <<"A","c","m","e"," ","C","o">>, amount |-> 10, date |-> 4,
      confidence |-> 80],
     [company_name |-> <<"A","c","m","e">>, amount |-> NO_AMOUNT, date |-> 4,
      confidence |-> 95]}

\* filings: the same company the same day under an amount and under zero, a day before
\* with another amount, a similar name a day and a half later, another name
\* two days before, and the company two and a half days later
FilingInputs ==
    {[company_name |-> <<"A","c","m","e"," ","I","n","c">>, amount |-> 11, date |-> 4,
      confidence |-> 95],
     [company_name |-> <<"A","c","m","e">>, amount |-> 0, date |-> 4,
      confidence |-> 95],
     [company_name |-> <<"A","c","m","e">>, amount |-> 20, date |-> 1,
      confidence |-> 95],
     [company_name |-> <<"A","c","n","e">>, amount |-> NO_AMOUNT, date |-> 7,
      confidence |-> 95],
     [company_name |-> <<"Z","z">>, amount |-> 20, date |-> 0, confidence |-> 95],
     [company_name |-> <<"A","c","m","e">>, amount |-> 10, date |-> 9,
      confidence |-> 95]}

\* CrossReferencer(name_threshold, date_window_days, amount_tolerance) on
\* either build; 0.85, 0.70 and 0 for the threshold, 2 and 0 days for the window
Referencers ==
    [name_threshold : {0, 70, 85}, date_window_days : {0, 2},
     amount_tolerance : {20}, using_rapidfuzz : BOOLEAN]

\* a call of match_news_to_form_d returns or raises
MatchNewsToFormD(w, self, news_events, form_d_events) ==
    /\ Idle
    /\ LET out == match_news_to_form_d(self, news_events, form_d_events)
       IN  /\ pc' = [pc EXCEPT ![w] = IF out.raised THEN "raised" ELSE "returned"]
           /\ loc' = [loc EXCEPT ![w] = [ret |-> out.ret]]
    /\ call' = [call EXCEPT ![w] =
                  [op |-> "match_news_to_form_d", self |-> self,
                   news_events |-> news_events, form_d_events |-> form_d_events,
                   matches |-> <<>>]]
    /\ StoreUnchanged /\ UNCHANGED <<today, alias_cache, alias_cache>>

\* the matches that were returned are passed to boost_confidence
BoostConfidence(w) ==
    /\ pc[w] = "returned"
    /\ call[w].op = "match_news_to_form_d"
    /\ call' = [call EXCEPT ![w].op = "boost_confidence", ![w].matches = loc[w].ret]
    /\ loc' = [loc EXCEPT ![w] = [ret |-> boost_confidence(loc[w].ret)]]
    /\ StoreUnchanged /\ UNCHANGED <<today, alias_cache, pc>>

NextCrossRef ==
    \/ \E self \in Referencers, news_events \in ListsOf(NewsInputs, MaxNews),
          form_d_events \in ListsOf(FilingInputs, MaxFilings) :
              MatchNewsToFormD(Client, self, news_events, form_d_events)
    \/ BoostConfidence(Client)
    \/ ReturnStep(Client)

SpecCrossRef == Init /\ [][NextCrossRef]_vars

-----------------------------------------------------------------------------
(* The migration of a store of dated and undated relationships *)

MigratePayloads ==
    {[confidence |-> 90, context |-> "c1", source_url |-> "u1", metadata |-> NULL_JSON],
     [confidence |-> 0, context |-> "c1", source_url |-> "u1", metadata |-> <<"k1">>]}

\* the defaults the target may declare for start_date
StartDateDefaults == {NULL, 1}

\* main() of migrate_to_supabase for the two tables of the graph, into an
\* empty target: failed are the entities and raising the relationships whose
\* INSERT raised, unique_key whether the target declares (subject_id,
\* predicate, object_id) unique
Migrate(w, failed, unique_key, start_date_default, raising) ==
    /\ Idle
    /\ pc' = [pc EXCEPT ![w] = "returned"]
    /\ call' = [call EXCEPT ![w] =
                  [op |-> "migrate", failed |-> failed, unique_key |-> unique_key,
                   start_date_default |-> start_date_default, raising |-> raising]]
    /\ loc' = [loc EXCEPT ![w] =
                  LET entity_id_mapping == migrate_entities(Store, failed)
                      out == migrate_relationships(Store, entity_id_mapping, unique_key,
                                                   start_date_default, raising)
                  IN  [entity_id_mapping |-> entity_id_mapping, ret |-> out.rows,
                       count |-> out.count, skipped |-> out.skipped]]
    /\ StoreUnchanged /\ UNCHANGED <<today, alias_cache, alias_cache>>

NextMigrate ==
    \/ \E s \in QueryEndpoints, p \in Predicates, o \in QueryEndpoints,
          d \in EventDates, pl \in MigratePayloads :
              AddRelationship(s.name, s.type, p, o.name, o.type, d, pl)
    \/ \E failed \in SUBSET {e.id : e \in entities}, unique_key \in BOOLEAN,
          start_date_default \in StartDateDefaults,
          raising \in SUBSET {r.id : r \in relationships} :
              Migrate(Client, failed, unique_key, start_date_default, raising)
    \/ ReturnStep(Client)

SpecMigrate == Init /\ [][NextMigrate]_vars

-----------------------------------------------------------------------------
(* Merges and removals on a store with aliases, enrichment and tags *)

MaxResolvedEntities == 3

\* a blacklisted name, the same name under another type with a leading blank
\* (which the blacklist does not match), and another name
ResolverEndpoints ==
    {[name |-> <<"T","e","a","m">>, type |-> "company"],
     [name |-> <<" ","t","e","a","m">>, type |-> "unknown"],
     [name |-> <<"a","b"," ","c","o">>, type |-> "company"]}

\* a call on the graph or the resolver runs to its return and commits
Committed(out) ==
    /\ Idle
    /\ out.db.seq_entities <= MaxResolvedEntities
    /\ TotalMentions(out.db.entities) <= MaxResolvedEntities
    /\ entities' = out.db.entities
    /\ aliases' = out.db.aliases
    /\ relationships' = out.db.relationships
    /\ enrichment' = out.db.enrichment
    /\ tags' = out.db.tags
    /\ seq_entities' = out.db.seq_entities
    /\ seq_relationships' = out.db.seq_relationships
    /\ UNCHANGED <<today, alias_cache, pc, call, loc>>

NextResolver ==
    \/ \E e \in ResolverEndpoints :
          Committed(add_entity(Store, e.name, e.type, NULL_JSON, today))
    \/ \E id \in ExistingIds, source \in Sources, data \in DataInputs :
          Committed(add_enrichment(Store, id, source, data))
    \/ \E id \in ExistingIds, tag \in TagInputs :
          Committed(add_tag(Store, id, tag))
    \/ \E k \in 1..seq_entities, m \in 1..seq_entities :
          Committed(merge_entities(Store, k, m))
    \/ Committed(remove_invalid_entities(Store))

SpecResolver == Init /\ [][NextResolver]_vars

-----------------------------------------------------------------------------
(* Source quality of urls and of stored relationships *)

\* urls: none, a listed domain behind www., a subdomain of a listed domain, a
\* domain that ends with the letters of a listed one, an unlisted domain, a
\* url without scheme, and a url in capitals without path
SourceUrls ==
    {<<>>,
     <<"h","t","t","p","s",":","/","/","w","w","w",".","b","l","o","o","m","b","e","r","g",".","c","o","m","/","a">>,
     <<"h","t","t","p","s",":","/","/","b","l","o","g",".","t","e","c","h","c","r","u","n","c","h",".","c","o","m","/","x">>,
     <<"h","t","t","p","s",":","/","/","z","i","n","c",".","c","o","m","/","a">>,
     <<"h","t","t","p","s",":","/","/","e","x","a","m","p","l","e",".","o","r","g","/","a">>,
     <<"b","l","o","o","m","b","e","r","g",".","c","o","m","/","a">>,
     <<"H","T","T","P","S",":","/","/","W","W","W",".","W","S","J",".","C","O","M">>}

StoredUrls ==
    {<<>>, <<"h","t","t","p","s",":","/","/","w","w","w",".","b","l","o","o","m","b","e","r","g",".","c","o","m","/","a">>,
     <<"h","t","t","p","s",":","/","/","z","i","n","c",".","c","o","m","/","a">>}

SourcePayloads ==
    [confidence : {0, 50, 90}, context : {"c1"}, source_url : StoredUrls,
     metadata : {NULL_JSON}]

GetSourceQuality(w, url) ==
    /\ Idle
    /\ pc' = [pc EXCEPT ![w] = "returned"]
    /\ call' = [call EXCEPT ![w] = [op |-> "get_source_quality", url |-> url]]
    /\ loc' = [loc EXCEPT ![w] = [ret |-> get_source_quality(url)]]
    /\ StoreUnchanged /\ UNCHANGED <<today, alias_cache, alias_cache>>

CalculateRelationshipConfidence(w, rel_id) ==
    /\ Idle
    /\ pc' = [pc EXCEPT ![w] = "returned"]
    /\ call' = [call EXCEPT ![w] =
                  [op |-> "calculate_relationship_confidence", rel_id |-> rel_id]]
    /\ \E r \in calculate_relationship_confidence(Store, rel_id) :
          loc' = [loc EXCEPT ![w] = [ret |-> r]]
    /\ StoreUnchanged /\ UNCHANGED <<today, alias_cache, alias_cache>>

NextSource ==
    \/ \E s \in QueryEndpoints, o \in QueryEndpoints, p \in Predicates,
          d \in EventDates, pl \in SourcePayloads :
              s # o /\ AddRelationship(s.name, s.type, p, o.name, o.type, d, pl)
    \/ \E url \in SourceUrls : GetSourceQuality(Client, url)
    \/ \E rel_id \in 1..(seq_relationships + 1) :
          CalculateRelationshipConfidence(Client, rel_id)
    \/ ReturnStep(Client)

SpecSource == Init /\ [][NextSource]_vars

-----------------------------------------------------------------------------
(* find_canonical of one EntityResolver while the store changes *)

CanonicalEndpoints ==
    {[name |-> <<"M","e","t","a">>, type |-> "company"],
     [name |-> <<"M","e","t","a">>, type |-> "unknown"],
     [name |-> <<"F","a","c","e","b","o","o","k">>, type |-> "company"]}

\* names looked up: an alias, an alias that normalizes to the canonical name,
\* and a name outside the table
CanonicalNames ==
    {<<"F","a","c","e","b","o","o","k">>, <<"M","e","t","a"," ","I","n","c">>,
     <<"a","b">>}

FindCanonical(w, name, entity_type) ==
    /\ Idle
    /\ \E out \in find_canonical(Store, alias_cache, name, entity_type) :
          /\ alias_cache' = out.cache
          /\ loc' = [loc EXCEPT ![w] = [ret |-> out.ret]]
    /\ pc' = [pc EXCEPT ![w] = "returned"]
    /\ call' = [call EXCEPT ![w] =
                  [op |-> "find_canonical", name |-> name,
                   entity_type |-> entity_type]]
    /\ StoreUnchanged /\ UNCHANGED today

\* EntityResolver(kg): a new instance, with an empty cache
NewResolver ==
    /\ Idle
    /\ alias_cache # <<>>
    /\ alias_cache' = <<>>
    /\ StoreUnchanged /\ UNCHANGED <<today, pc, call, loc>>

NextCanonical ==
    \/ \E e \in CanonicalEndpoints : AddEntity(e.name, e.type, NULL_JSON)
    \/ \E k \in 1..seq_entities, m \in 1..seq_entities :
          k # m /\ MergeEntities(k, m)
    \/ \E name \in CanonicalNames, entity_type \in Types :
          FindCanonical(Client, name, entity_type)
    \/ NewResolver
    \/ ReturnStep(Client)

SpecCanonical == Init /\ [][NextCanonical]_vars

-----------------------------------------------------------------------------
(* Claims *)

\* the key the claims speak of: the name lowercased and trimmed
ClaimKey(name) == Strip(Lower(name))

MentionCountOf(rows, id) == (CHOOSE e \in rows : e.id = id).mention_count

\* C1: at most one entity row exists for each (lowercased and trimmed name,
\* entity_type); add_entity with a name of the same key and the same type as
\* a stored row returns that row's id, adds no row and raises that row's
\* mention_count by exactly 1.
Thm_C1_EntityUniqueness ==
    /\ \A e1 \in entities, e2 \in entities :
          (ClaimKey(e1.name) = ClaimKey(e2.name) /\ e1.entity_type = e2.entity_type)
              => e1 = e2
    /\ \A n \in Names, t \in Types, a \in AttributeInputs, e \in entities :
          (ClaimKey(e.name) = ClaimKey(n) /\ e.entity_type = t) =>
              LET out == add_entity(Store, n, t, a, today)
              IN  /\ ~out.raised
                  /\ out.ret = e.id
                  /\ {x.id : x \in out.db.entities} = {x.id : x \in entities}
                  /\ MentionCountOf(out.db.entities, e.id) = e.mention_count + 1
                  /\ \A x \in entities : x.id # e.id => x \in out.db.entities

\* C1 witness: a row upserted more than once by add_entity alone, about to be
\* upserted under a name that differs from the stored one in case and
\* whitespace only.
Witness_C1 ==
    /\ seq_relationships = 0
    /\ aliases = {}
    /\ \E e \in entities, n \in Names :
          /\ e.mention_count >= 2
          /\ n # e.name
          /\ ClaimKey(n) = ClaimKey(e.name)
          /\ add_entity(Store, n, e.entity_type, NULL_JSON, today).ret = e.id

\* the stored relationships of subject s, predicate p, object o and date d,
\* the subject and object found by their keys
RowsOfTuple(db, s, p, o, d) ==
    {r \in db.relationships :
        /\ r.predicate = p
        /\ r.event_date = d
        /\ \E e \in db.entities : /\ e.id = r.subject_id
                                  /\ ClaimKey(e.name) = ClaimKey(s.name)
                                  /\ e.entity_type = s.type
        /\ \E e \in db.entities : /\ e.id = r.object_id
                                  /\ ClaimKey(e.name) = ClaimKey(o.name)
                                  /\ e.entity_type = o.type}

\* C2: for a non-null event_date, two add_relationship calls with the
\* identical tuple store exactly one row of that tuple: the first call returns
\* an id (unless the tuple was stored before) and the second returns None.
Thm_C2_RelationshipIdempotence ==
    \A s \in Endpoints, p \in Predicates, o \in Endpoints, pl \in Payloads,
       d \in EventDates \ {NULL} :
        LET first == add_relationship(Store, s.name, s.type, p, o.name, o.type,
                                      d, pl, today)
            second == add_relationship(first.db, s.name, s.type, p, o.name, o.type,
                                       d, pl, today)
        IN  /\ (RowsOfTuple(Store, s, p, o, d) = {}) <=> (first.ret # NULL)
            /\ second.ret = NULL
            /\ second.db.relationships = first.db.relationships
            /\ Cardinality(RowsOfTuple(second.db, s, p, o, d)) = 1

\* C2 witness: a dated tuple is stored, its entities have been mentioned
\* twice, and adding it again returns None.
Witness_C2 ==
    \E s \in Endpoints, p \in Predicates, o \in Endpoints, pl \in Payloads,
       d \in EventDates \ {NULL} :
        /\ Cardinality(RowsOfTuple(Store, s, p, o, d)) = 1
        /\ \A e \in entities : e.mention_count >= 2
        /\ seq_relationships = 1
        /\ add_relationship(Store, s.name, s.type, p, o.name, o.type, d, pl,
                            today).ret = NULL

\* C3: at most one relationship row with event_date NULL exists for a given
\* (subject_id, predicate, object_id).
Cex_C3_OneUndatedRow ==
    \A r1 \in relationships, r2 \in relationships :
        (/\ r1.event_date = NULL
         /\ r2.event_date = NULL
         /\ r1.subject_id = r2.subject_id
         /\ r1.predicate = r2.predicate
         /\ r1.object_id = r2.object_id) => r1 = r2

\* C4: merge_entities is all-or-nothing: a call that returns False leaves the
\* store as it was (no relationship re-pointed, no mention_count changed).
Cex_C4_MergeAllOrNothing ==
    \A k \in 1..seq_entities, m \in 1..seq_entities :
        k # m =>
            LET out == merge_entities(Store, k, m)
            IN  out.ret = 0 => out.db = Store

\* C5: after merge_entities(keep_id, merge_id) returns True for two distinct
\* existing entities, no relationship row has merge_id as subject or object,
\* keep's mention_count is the sum of the two mention_counts before the merge,
\* and get_entity_by_id(merge_id) returns None.
Thm_C5_MergePostcondition ==
    \A k \in ExistingIds, m \in ExistingIds :
        k # m =>
            LET out == merge_entities(Store, k, m)
            IN  out.ret = 1 =>
                    /\ \A r \in out.db.relationships :
                          r.subject_id # m /\ r.object_id # m
                    /\ MentionCountOf(out.db.entities, k) =
                          MentionCountOf(entities, k) + MentionCountOf(entities, m)
                    /\ get_entity_by_id(out.db, m) = NULL

\* C5 witness: a merge has returned True (only that inserts an alias) and the
\* survivor carries a relationship and the summed mention_count.
Witness_C5 ==
    \E a \in aliases, e \in entities, r \in relationships :
        /\ e.id = a.entity_id
        /\ e.mention_count >= 2
        /\ r.subject_id = e.id \/ r.object_id = e.id
        /\ Cardinality(entities) < seq_entities

\* C6: every relationship row's subject_id and object_id are ids of existing
\* entity rows, and a relationship that add_relationship inserts has the rows
\* of its subject and object names as its two ends.
Thm_C6_ReferentialIntegrity ==
    /\ \A r \in relationships :
          /\ \E e \in entities : e.id = r.subject_id
          /\ \E e \in entities : e.id = r.object_id
    /\ \A s \in Endpoints, p \in Predicates, o \in Endpoints, pl \in Payloads,
          d \in EventDates :
          LET out == add_relationship(Store, s.name, s.type, p, o.name, o.type,
                                      d, pl, today)
          IN  out.ret # NULL =>
                \E r \in out.db.relationships :
                    /\ r.id = out.ret
                    /\ r \in RowsOfTuple(out.db, s, p, o, IsoFormat(d))

\* C6 witness: an entity row has been deleted (by a merge or by the removal of
\* invalid entities) and relationships are stored.
Witness_C6 ==
    /\ relationships # {}
    /\ Cardinality(entities) < seq_entities
    /\ \E s \in Endpoints : SelectEntity(Store, NormalizedKey(s.name), s.type) = {}

\* C7: no committed state shows the entity upserts of an add_relationship
\* call (its subject or object row created or counted) while the call's
\* relationship row has been neither inserted nor rejected as a duplicate.
Cex_C7_RelationshipUpsertAtomic ==
    \A w \in Workers :
        (/\ pc[w] # "idle"
         /\ call[w].op = "add_relationship"
         /\ loc[w].subject_id # NULL) => pc[w] = "returned"

\* C8: of two workers upserting the same entity that is not stored yet, the
\* losing call completes normally: no call raises an error to its caller, and
\* no second row of the key is left.
Cex_C8_LosingUpsertReturns ==
    /\ \A w \in Workers : pc[w] # "raised"
    /\ \A e1 \in entities, e2 \in entities :
          (ClaimKey(e1.name) = ClaimKey(e2.name) /\ e1.entity_type = e2.entity_type)
              => e1 = e2

\* C9: run_all never raises: it returns its counts for every reachable store.
Cex_C9_RunAllNeverRaises ==
    \A out \in run_all(Store) : ~out.raised

\* C10: an add_relationship call that returns None because the tuple is
\* stored already leaves the store as it was: the relationship rows and every
\* entity row, the mention_count and last_seen of subject and object included.
Cex_C10_DuplicateIsNoOp ==
    \A s \in Endpoints, p \in Predicates, o \in Endpoints, pl \in Payloads,
       d \in EventDates :
        LET out == add_relationship(Store, s.name, s.type, p, o.name, o.type,
                                    d, pl, today)
        IN  out.ret = NULL =>
                /\ out.db.relationships = relationships
                /\ out.db.entities = entities


\* C11: two stored entities of the same type whose names belong to the same
\* known-alias set are merged by run_all into one entity, and the losing name
\* is stored as an alias of the survivor.
Cex_C11_KnownAliasesMerged ==
    \A e1 \in entities, e2 \in entities :
        (/\ e1.id # e2.id
         /\ e1.entity_type = e2.entity_type
         /\ KnownAliasSets(normalize_name(e1.name))
                \cap KnownAliasSets(normalize_name(e2.name)) # {}) =>
            \A out \in run_all(Store) :
                \E keep \in {e1, e2}, lose \in {e1, e2} :
                    /\ keep.id # lose.id
                    /\ EntityById(out.db, keep.id) # {}
                    /\ EntityById(out.db, lose.id) = {}
                    /\ \E a \in out.db.aliases :
                          a.entity_id = keep.id /\ a.alias = lose.name

\* the rows of before whose entity_type differs in after
Retyped(before, after) ==
    {e \in before : \E x \in after : x.id = e.id /\ x.entity_type # e.entity_type}

\* C12: whenever run_all returns, it has removed the invalid entities, then
\* retyped the store that removal left, then scanned the store that retyping
\* left and merged the reported pairs; its counts are the number of entities
\* removal deleted, the number retyped, the number of pairs the scan reported
\* and the number of merges that returned True (each deletes one entity), and
\* duplicates_merged <= duplicates_found.
Thm_C12_RunAllOrderAndCounts ==
    \A out \in run_all(Store) :
        ~out.raised =>
            LET invalid == {e \in entities : IsInvalidName(e.name)}
                removed == remove_invalid_entities(Store).db
                typed == fix_entity_types(removed).db
            IN  /\ out.counts.invalid_removed = Cardinality(invalid)
                /\ out.counts.types_fixed =
                      Cardinality(Retyped(removed.entities, typed.entities))
                /\ \E ord \in MentionOrders(typed.entities) :
                      out.counts.duplicates_found =
                          Len(find_duplicates(ord, DUPLICATE_THRESHOLD))
                /\ out.counts.duplicates_merged =
                      Cardinality(typed.entities) - Cardinality(out.db.entities)
                /\ out.counts.duplicates_merged <= out.counts.duplicates_found
                /\ \A e \in out.db.entities :
                      /\ e \notin invalid
                      /\ \E x \in typed.entities : x.id = e.id

\* C12 witness: a store on which run_all returns after it has retyped an
\* entity and merged a pair that the retyped store made comparable.
Witness_C12 ==
    \E out \in run_all(Store) :
        /\ ~out.raised
        /\ out.counts.types_fixed >= 1
        /\ out.counts.duplicates_found >= 1
        /\ out.counts.duplicates_merged >= 1

\* the predicates whose subject is a person, and whose subject is a company
PersonPredicates == {"CEO_OF", "CTO_OF", "CFO_OF", "FOUNDED", "HIRED_BY", "DEPARTED_FROM"}
CompanyPredicates == {"FUNDED_BY", "ACQUIRED"}

\* the type the rules of the retype pass give an unknown entity
RuleType(rels, id) ==
    IF \E r \in rels : r.subject_id = id /\ r.predicate \in PersonPredicates
    THEN "person"
    ELSE IF \/ \E r \in rels : r.subject_id = id /\ r.predicate \in CompanyPredicates
            \/ \E r \in rels : r.object_id = id /\ r.predicate = "HIRED_BY"
    THEN "company"
    ELSE "unknown"

\* C13: when fix_entity_types returns, every entity that was not unknown is
\* unchanged, every unknown entity has the type the rules give it (person
\* before company, unknown when no rule applies), and the returned count is
\* the number of entities retyped.
Cex_C13_RetypeRules ==
    LET out == fix_entity_types(Store)
    IN  ~out.raised =>
            /\ \A e \in entities :
                  \E x \in out.db.entities :
                      /\ x.id = e.id
                      /\ x = [e EXCEPT !.entity_type =
                                IF e.entity_type = "unknown"
                                THEN RuleType(relationships, e.id) ELSE @]
            /\ out.ret = Cardinality(Retyped(entities, out.db.entities))

\* a name that equals a blacklist entry when case is ignored
Blacklisted(name) ==
    \E i \in 1..Len(INVALID_ENTITIES) : Lower(name) = Lower(INVALID_ENTITIES[i])

\* C14: after remove_invalid_entities no entity with a blacklisted name is
\* stored and no relationship has a removed entity as subject or object; the
\* other entities, and the relationships between them, are unchanged; the
\* return value is the number of entities deleted.
Thm_C14_InvalidRemoved ==
    LET out == remove_invalid_entities(Store)
        gone == {e \in entities : Blacklisted(e.name)}
        goneIds == {e.id : e \in gone}
    IN  /\ ~out.raised
        /\ \A e \in out.db.entities : ~Blacklisted(e.name)
        /\ \A r \in out.db.relationships :
              r.subject_id \notin goneIds /\ r.object_id \notin goneIds
        /\ out.db.entities = entities \ gone
        /\ \A r \in relationships :
              (r.subject_id \notin goneIds /\ r.object_id \notin goneIds)
                  => r \in out.db.relationships
        /\ out.db.relationships \subseteq relationships
        /\ out.ret = Cardinality(gone)

\* C14 witness: a blacklisted entity is stored under a name in capitals, with
\* a relationship to an entity that is not blacklisted, next to a relationship
\* that does not touch it.
Witness_C14 ==
    \E e \in entities, r1 \in relationships, r2 \in relationships :
        /\ Blacklisted(e.name)
        /\ e.name # Lower(e.name)
        /\ (r1.subject_id = e.id) # (r1.object_id = e.id)
        /\ r2.subject_id # e.id /\ r2.object_id # e.id
        /\ remove_invalid_entities(Store).ret = 1

\* needle occurs in text as a run of consecutive characters
IsSubstring(needle, text) ==
    \E i \in 0..(Len(text) - Len(needle)) :
        SubSeq(text, i + 1, i + Len(needle)) = needle

\* the relationships a query is to return: subject and object contain the
\* lowercased filters in their normalized names, the predicate is the given
\* one, and the event_date is null or not before since_date
Matching(subject, predicate, obj, since_date) ==
    {r \in relationships :
        \E s \in entities, o \in entities :
            /\ r.subject_id = s.id
            /\ r.object_id = o.id
            /\ subject # <<>> => IsSubstring(Lower(subject), s.normalized_name)
            /\ predicate # "" => r.predicate = predicate
            /\ obj # <<>> => IsSubstring(Lower(obj), o.normalized_name)
            /\ since_date # NULL => (r.event_date = NULL \/ r.event_date >= since_date)}

\* row r1 stands before row r2 in the order of the results: later event_date
\* first, the undated rows last, and the later id first among equal dates
Before(r1, r2) ==
    \/ r1.event_date # NULL /\ r2.event_date = NULL
    \/ r1.event_date # NULL /\ r2.event_date # NULL /\ r1.event_date > r2.event_date
    \/ r1.event_date = r2.event_date /\ r1.id > r2.id

\* C15: a query returns exactly the relationships that match its filters and
\* whose event_date is null or >= since_date, ordered by event_date descending
\* and then id descending, cut to the first limit rows of that order.
Cex_C15_QuerySinceDate ==
    \A w \in Workers :
        (pc[w] = "returned" /\ call[w].op = "query") =>
            LET c == call[w]
                ret == loc[w].ret
                all == Matching(c.subject, c.predicate, c.obj, c.since_date)
                got == {ret[i] : i \in 1..Len(ret)}
            IN  /\ got \subseteq all
                /\ Len(ret) = IF Cardinality(all) < c.limit
                              THEN Cardinality(all) ELSE c.limit
                /\ Cardinality(got) = Len(ret)
                /\ \A i \in 1..Len(ret), j \in 1..Len(ret) :
                      i < j => Before(ret[i], ret[j])
                /\ \A r \in all \ got, x \in got : Before(x, r)

\* C16: when add_entity finds the row, stored attributes that are not null
\* are kept whatever the call supplies, and the supplied attributes are stored
\* only when the stored attributes are null.
Cex_C16_PreferExistingAttributes ==
    \A n \in Names, t \in Types, a \in AttributeValues, e \in entities :
        (ClaimKey(e.name) = ClaimKey(n) /\ e.entity_type = t) =>
            LET out == add_entity(Store, n, t, a, today)
                row == CHOOSE x \in out.db.entities : x.id = e.id
            IN  row.attributes_json =
                    IF e.attributes_json # NULL_JSON THEN e.attributes_json
                    ELSE JsonOrNull(a)

\* C17: normalize_name is idempotent: normalizing a name that normalize_name
\* returned gives the same name.
Cex_C17_NormalizeIdempotent ==
    \A w \in Workers :
        (pc[w] = "returned" /\ call[w].op = "normalize_name") =>
            normalize_name(loc[w].ret) = loc[w].ret

\* the filings that pass both filters for news event i of call c: name
\* similarity >= name_threshold and date difference <= date_window_days
Passing(c, i) ==
    {j \in 1..Len(c.form_d_events) :
        /\ ~FracBelow(name_similarity(c.news_events[i].company_name,
                                      c.form_d_events[j].company_name,
                                      c.self.using_rapidfuzz),
                      c.self.name_threshold)
        /\ DateDiffDays(c.news_events[i].date, c.form_d_events[j].date)
              <= c.self.date_window_days}

\* the score of filing j for news event i
ScoreOf(c, i, j) ==
    calculate_match_score(
        name_similarity(c.news_events[i].company_name, c.form_d_events[j].company_name,
                        c.self.using_rapidfuzz),
        DateDiffDays(c.news_events[i].date, c.form_d_events[j].date),
        amounts_compatible(c.news_events[i].amount, c.form_d_events[j].amount,
                           c.self.amount_tolerance),
        c.self.date_window_days)

\* what the claim says of the matches ret returned for call c: they are the
\* matches of an increasing choice of news events, one for each; the filing of
\* each passes both filters, has a score in [0,1] that no passing filing
\* exceeds and no earlier passing filing equals; and with a positive
\* name_threshold every news event with a passing filing is among them
MatchContract(c, ret) ==
    \E at \in [1..Len(ret) -> 1..Len(c.news_events)] :
        /\ \A k1 \in 1..Len(ret), k2 \in 1..Len(ret) : k1 < k2 => at[k1] < at[k2]
        /\ \A k \in 1..Len(ret) :
              /\ ret[k].news = c.news_events[at[k]]
              /\ \E j \in Passing(c, at[k]) :
                    /\ ret[k].form_d = c.form_d_events[j]
                    /\ ret[k].combined_confidence = ScoreOf(c, at[k], j)
                    /\ \A x \in Passing(c, at[k]) :
                          /\ ~FracGreater(ScoreOf(c, at[k], x), ScoreOf(c, at[k], j))
                          /\ x < j => FracGreater(ScoreOf(c, at[k], j),
                                                  ScoreOf(c, at[k], x))
              /\ ret[k].combined_confidence.num >= 0
              /\ ret[k].combined_confidence.num <= ret[k].combined_confidence.den
              /\ ret[k].combined_confidence.den > 0
        /\ c.self.name_threshold > 0 =>
              \A i \in 1..Len(c.news_events) :
                  Passing(c, i) # {} => \E k \in 1..Len(ret) : at[k] = i

Cex_C19_BoostExceedsOriginal ==
    \A w \in Workers :
        (pc[w] = "returned" /\ call[w].op = "boost_confidence") =>
            \A k \in 1..Len(call[w].matches) :
                LET match == call[w].matches[k]
                    company == normalize_company_name(match.news.company_name)
                IN  /\ company \in DOMAIN loc[w].ret
                    /\ loc[w].ret[company].boosted_confidence > match.news.confidence

\* C20: after a migration, the source relationships whose subject and object
\* are mapped have each a row of their own in the target, with the same
\* predicate, event_date, confidence, context, source_url and metadata.
Cex_C20_MigrationLossless ==
    \A w \in Workers :
        (pc[w] = "returned" /\ call[w].op = "migrate") =>
            LET mapping == loc[w].entity_id_mapping
                target == loc[w].ret
                mapped == {r \in relationships :
                              /\ r.subject_id \in DOMAIN mapping
                              /\ r.object_id \in DOMAIN mapping}
            IN  \E at \in [mapped -> 1..Len(target)] :
                    /\ \A r1 \in mapped, r2 \in mapped : at[r1] = at[r2] => r1 = r2
                    /\ \A r \in mapped :
                          /\ target[at[r]].subject_id = mapping[r.subject_id]
                          /\ target[at[r]].object_id = mapping[r.object_id]
                          /\ target[at[r]].predicate = r.predicate
                          /\ target[at[r]].start_date = r.event_date
                          /\ target[at[r]].confidence = r.confidence
                          /\ target[at[r]].context = r.context
                          /\ target[at[r]].source_url = r.source_url
                          /\ target[at[r]].metadata = r.metadata_json

\* C21: every row migrate_relationships inserted carries the images under the
\* id mapping of the subject_id and object_id of a source relationship with
\* both ids mapped; the relationships with an unmapped id are not inserted
\* and are counted as skipped; count plus skipped is the number of source
\* relationships.
Thm_C21_MigrationNeverMiswires ==
    \A w \in Workers :
        (pc[w] = "returned" /\ call[w].op = "migrate") =>
            LET mapping == loc[w].entity_id_mapping
                mapped == {r \in relationships :
                              /\ r.subject_id \in DOMAIN mapping
                              /\ r.object_id \in DOMAIN mapping}
            IN  /\ \A k \in 1..Len(loc[w].ret) :
                      \E r \in mapped :
                          /\ loc[w].ret[k].subject_id = mapping[r.subject_id]
                          /\ loc[w].ret[k].object_id = mapping[r.object_id]
                          /\ loc[w].ret[k].predicate = r.predicate
                /\ Len(loc[w].ret) <= Cardinality(mapped)
                /\ loc[w].count <= Cardinality(mapped)
                /\ loc[w].skipped >= Cardinality(relationships \ mapped)
                /\ loc[w].count + loc[w].skipped = Cardinality(relationships)

\* C21 witness: a migration in which one relationship was inserted and
\* another, whose object failed to migrate, was skipped.
Witness_C21 ==
    \E w \in Workers :
        /\ pc[w] = "returned"
        /\ call[w].op = "migrate"
        /\ call[w].raising = {}
        /\ Len(loc[w].ret) = 1
        /\ loc[w].count = 1
        /\ loc[w].skipped = 1
        /\ \E r \in relationships :
              /\ r.subject_id \in DOMAIN loc[w].entity_id_mapping
              /\ r.object_id \notin DOMAIN loc[w].entity_id_mapping

\* the row of id in rows
RowOf(rows, id) == CHOOSE e \in rows : e.id = id

\* C22: after merge_entities(keep_id, merge_id) returns True, an alias row
\* (keep_id, merged name, merged normalized_name) exists; keep's entity_type
\* is the merged entity's if keep was unknown and the merged entity was not,
\* and is otherwise unchanged; keep's name and normalized_name are unchanged.
Cex_C22_MergeAliasAndType ==
    \A k \in ExistingIds, m \in ExistingIds :
        LET out == merge_entities(Store, k, m)
            keep == RowOf(entities, k)
            merge == RowOf(entities, m)
        IN  out.ret = 1 =>
                /\ \E a \in out.db.aliases :
                      /\ a.entity_id = k
                      /\ a.alias = merge.name
                      /\ a.normalized_alias = merge.normalized_name
                /\ \E e \in out.db.entities :
                      /\ e.id = k
                      /\ e.name = keep.name
                      /\ e.normalized_name = keep.normalized_name
                      /\ e.entity_type =
                            IF keep.entity_type = "unknown" /\ merge.entity_type # "unknown"
                            THEN merge.entity_type ELSE keep.entity_type


\* C23: after merge_entities(keep_id, merge_id) returns True, every enrichment
\* row and every tag row of the merged entity belongs to keep, except where
\* keep had a row of the same source or tag, which is unchanged; no
\* enrichment or tag row is keyed by merge_id.
Cex_C23_SatellitesMoved ==
    \A k \in ExistingIds, m \in ExistingIds :
        LET out == merge_entities(Store, k, m)
        IN  (k # m /\ out.ret = 1) =>
                /\ \A n \in enrichment :
                      n.entity_id = m =>
                          IF \E x \in enrichment : x.entity_id = k /\ x.source = n.source
                          THEN \A x \in enrichment :
                                  (x.entity_id = k /\ x.source = n.source) =>
                                      x \in out.db.enrichment
                          ELSE [n EXCEPT !.entity_id = k] \in out.db.enrichment
                /\ \A t \in tags :
                      t.entity_id = m =>
                          [t EXCEPT !.entity_id = k] \in out.db.tags
                /\ \A n \in out.db.enrichment : n.entity_id # m
                /\ \A t \in out.db.tags : t.entity_id # m

\* C29: merge_entities(id, id) on an existing entity returns False and leaves
\* the store unchanged: the entity is not deleted and its mention_count is not
\* changed.
Cex_C29_SelfMergeRejected ==
    \A id \in ExistingIds :
        LET out == merge_entities(Store, id, id)
        IN  /\ out.ret = 0
            /\ out.db = Store

\* C30: every alias, enrichment and tag row references an existing entity,
\* after any sequence of merge_entities and remove_invalid_entities.
Cex_C30_SatellitesReferenceEntities ==
    /\ \A a \in aliases : a.entity_id \in ExistingIds
    /\ \A n \in enrichment : n.entity_id \in ExistingIds
    /\ \A t \in tags : t.entity_id \in ExistingIds

\* the boosted confidence the claim C24 states for a match, in hundredths
ClaimedBoost(match) ==
    LET raised == 90
                  + (IF /\ match.amount_match
                        /\ match.news.amount # NO_AMOUNT
                        /\ match.form_d.amount # NO_AMOUNT
                     THEN 5 ELSE 0)
                  + (IF FracAbove(match.name_similarity, 95) THEN 3 ELSE 0)
    IN  IF raised > 98 THEN 98 ELSE raised

\* C24: boost_confidence records for each match 0.90, raised by 0.05 when the
\* match is amount-compatible and both amounts are not None (zero included),
\* raised by 0.03 when the name similarity is above 0.95, capped at 0.98; every
\* boosted value lies in [0.90, 0.98].
Cex_C24_BoostValues ==
    \A w \in Workers :
        (pc[w] = "returned" /\ call[w].op = "boost_confidence") =>
            /\ \A company \in DOMAIN loc[w].ret :
                  /\ loc[w].ret[company].boosted_confidence >= 90
                  /\ loc[w].ret[company].boosted_confidence <= 98
            /\ \A k \in 1..Len(call[w].matches) :
                  LET match == call[w].matches[k]
                      company == normalize_company_name(match.news.company_name)
                  IN  (\A later \in (k + 1)..Len(call[w].matches) :
                          normalize_company_name(
                              call[w].matches[later].news.company_name) # company) =>
                          loc[w].ret[company].boosted_confidence = ClaimedBoost(match)

\* the host of a url: the text between the second and the third slash, in
\* lower case and without a leading www.
HostOf(url) ==
    LET parts == SplitOn(url, "/", <<>>)
        host == IF Len(parts) >= 3 THEN Lower(parts[3]) ELSE <<>>
    IN  IF StartsWith(host, <<"w","w","w",".">>) THEN SubSeq(host, 5, Len(host))
        ELSE host

\* host is the listed domain or a subdomain of it
DomainOrSubdomain(host, domain) ==
    host = domain \/ EndsWith(host, <<".">> \o domain)

\* C25: get_source_quality returns a listed tier only for a url whose host is
\* a listed domain or a dot-separated subdomain of one, and DEFAULT_SOURCE
\* (tier 3, 0.50) for every other url.
Cex_C25_SourceTierByDomain ==
    \A w \in Workers :
        (pc[w] = "returned" /\ call[w].op = "get_source_quality") =>
            IF \E i \in 1..Len(SOURCE_TIERS) :
                  DomainOrSubdomain(HostOf(call[w].url), SOURCE_TIERS[i].domain)
            THEN \E i \in 1..Len(SOURCE_TIERS) :
                    /\ DomainOrSubdomain(HostOf(call[w].url), SOURCE_TIERS[i].domain)
                    /\ loc[w].ret = SOURCE_TIERS[i]
            ELSE /\ loc[w].ret = DEFAULT_SOURCE
                 /\ loc[w].ret.tier = 3
                 /\ loc[w].ret.base_confidence = 50

\* C26: for every existing relationship, calculate_relationship_confidence is
\* its stored confidence times the base confidence of the tier of its source
\* url, rounded to two decimals, for every stored confidence including 0.
Cex_C26_RelationshipConfidence ==
    \A w \in Workers :
        (pc[w] = "returned" /\ call[w].op = "calculate_relationship_confidence") =>
            \A r \in relationships :
                r.id = call[w].rel_id =>
                    loc[w].ret \in
                        Round2(r.confidence
                               * get_source_quality(r.source_url).base_confidence)

\* C27: find_canonical(name, entity_type) returns what a lookup without cache
\* on the current store returns: the id of an existing entity of that type
\* under the canonical name of name in KNOWN_ALIASES, or None.
Cex_C27_CacheIsReadThrough ==
    \A w \in Workers :
        (pc[w] = "returned" /\ call[w].op = "find_canonical") =>
            /\ loc[w].ret \in
                  {out.ret : out \in find_canonical(Store, <<>>, call[w].name,
                                                    call[w].entity_type)}
            /\ loc[w].ret # NULL =>
                  \E e \in entities :
                      /\ e.id = loc[w].ret
                      /\ e.entity_type = call[w].entity_type

\* C28: on the store a run_all has returned on, a second run_all reports
\* duplicates_found = 0 and changes no mention_count.
Cex_C28_RunAllFixpoint ==
    \A first \in run_all(Store) :
        ~first.raised =>
            \A second \in run_all(first.db) :
                ~second.raised =>
                    /\ second.counts.duplicates_found = 0
                    /\ \A e \in first.db.entities :
                          \A e2 \in second.db.entities :
                              e2.id = e.id => e2.mention_count = e.mention_count
====
